---- MODULE Spec2Model ----
(***************************************************************************)
(* Resilient sync and aggregation pipeline of musight-backend.             *)
(*                                                                         *)
(* The module holds several specifications over one set of variables:      *)
(*   SpecGate    the availability gate (dbFallback.js: checkDatabase,      *)
(*               resetDatabaseCheck) and the fallback orchestrator         *)
(*               (withCacheFallback), with concurrent requests that        *)
(*               interleave at their awaits.                               *)
(* Further specifications follow below, each with its own section.         *)
(***************************************************************************)
EXTENDS Integers, Sequences, FiniteSets, TLC

VARIABLES
    dbAvailable,    \* dbFallback.js:7   the gate memo: NULL, "true" or "false"
    dbUp,           \* environment: the store answers queries
    calls,          \* the in-flight requests, one record per caller
    unavailSeen,    \* history: a probe memoized "false" and no reset since
    resetPending,   \* history: resetDatabaseCheck ran and no checkDatabase call started since
    trackStat,      \* store table TrackStat (PlayEvents): row -> number of copies
    artistStat,     \* store table ArtistStat: userId -> artistId -> aggregate
    musicProfile,   \* store table MusicProfile: userId -> profile document
    upPlays,        \* upstream: userId -> the tracks the identity played, oldest first
    job,            \* the syncUserPlayback in progress and its position
    syncResult,     \* what the last sync call returned or threw
    cacheFiles,     \* the cache directory: file name -> content
    saved,          \* history: a LocalCache.save and the key it wrote, unless that key was written since
    cacheIO,        \* what the last LocalCache.load returned
    response,       \* what GET /profile sent last
    auth,           \* token provider: exchanges made, the store's identity records, the last call
    retry,          \* the makeRequestWithRetry call in progress
    batch,          \* the syncAllUsersData run in progress and its log
    runs,           \* the syncRecentlyPlayed executions that interleave at their awaits
    owed,           \* history: what an execution that threw had fetched and left unstored
    svcUser,        \* the user object a service was built with (this.user)
    flights         \* the getValidAccessToken calls made through that object

gateVars == <<dbAvailable, dbUp, calls, unavailSeen, resetPending>>

syncVars == <<trackStat, artistStat, musicProfile, upPlays, job, syncResult>>

cacheVars == <<cacheFiles, saved, cacheIO>>

upstreamVars == <<auth, retry>>

batchVars == <<batch>>

flightVars == <<svcUser, flights>>

raceVars == <<runs, owed, flightVars>>

vars == <<gateVars, syncVars, cacheVars, response, upstreamVars, batchVars, raceVars>>

\* what the actions of the gate leave alone
notGate == <<syncVars, cacheVars, response, upstreamVars, batchVars, raceVars>>

\* what the actions of the sync engine leave alone
notSync == <<gateVars, cacheVars, response, upstreamVars, batchVars, raceVars>>

\* what the interleaved executions of syncRecentlyPlayed leave alone
notRace == <<gateVars, cacheVars, response, upstreamVars, batchVars, flightVars>>

\* what the actions of the cache leave alone
notCache == <<gateVars, syncVars, response, upstreamVars, batchVars, raceVars>>

----------------------------------------------------------------------------
(* Bounds *)

\* number of requests that can be in flight at once
MaxCallers == 2

Callers == 1..MaxCallers

----------------------------------------------------------------------------
(* Values *)

NULL == "null"

BoolStr(b) == IF b THEN "true" ELSE "false"

\* String.prototype.includes on texts held as tuples of characters
Includes(text, pat) ==
    \E i \in 1..(Len(text) - Len(pat) + 1) :
        SubSeq(text, i, i + Len(pat) - 1) = pat

\* the literal 'connect' of dbFallback.js:59
ConnectLiteral == <<"c", "o", "n", "n", "e", "c", "t">>

(* The errors a primary or secondary operation can raise. origin says where *)
(* the failure really comes from; code and message are what the catch block *)
(* of withCacheFallback can look at.                                        *)
ErrorTable ==
    [ E_P1001 |->
        [origin |-> "store", code |-> "P1001",
         message |-> <<"C", "a", "n", "'", "t", " ", "r", "e", "a", "c", "h", " ",
                       "d", "a", "t", "a", "b", "a", "s", "e", " ",
                       "s", "e", "r", "v", "e", "r">>],
      E_ConnClosed |->
        [origin |-> "store", code |-> "P1017",
         message |-> <<"S", "e", "r", "v", "e", "r", " ", "h", "a", "s", " ",
                       "c", "l", "o", "s", "e", "d", " ", "t", "h", "e", " ",
                       "c", "o", "n", "n", "e", "c", "t", "i", "o", "n">>],
      E_NotFound |->
        [origin |-> "notfound", code |-> "P2025",
         message |-> <<"R", "e", "c", "o", "r", "d", " ", "n", "o", "t", " ",
                       "f", "o", "u", "n", "d">>],
      E_Upstream500 |->
        [origin |-> "upstream", code |-> "ERR_BAD_RESPONSE",
         message |-> <<"R", "e", "q", "u", "e", "s", "t", " ", "f", "a", "i", "l",
                       "e", "d", " ", "w", "i", "t", "h", " ", "s", "t", "a", "t",
                       "u", "s", " ", "c", "o", "d", "e", " ", "5", "0", "0">>],
      E_UpstreamNet |->
        [origin |-> "upstream", code |-> "ECONNREFUSED",
         message |-> <<"c", "o", "n", "n", "e", "c", "t", " ", "E", "C", "O", "N",
                       "N", "R", "E", "F", "U", "S", "E", "D">>],
      E_Disabled |->
        [origin |-> "orchestrator", code |-> "",
         message |-> <<"D", "a", "t", "a", "b", "a", "s", "e", " ", "u", "n", "a",
                       "v", "a", "i", "l", "a", "b", "l", "e", " ", "a", "n", "d",
                       " ", "c", "a", "c", "h", "e", " ", "f", "a", "l", "l", "b",
                       "a", "c", "k", " ", "d", "i", "s", "a", "b", "l", "e", "d">>],
      E_Cache |->
        [origin |-> "cache", code |-> "EACCES",
         message |-> <<"p", "e", "r", "m", "i", "s", "s", "i", "o", "n", " ",
                       "d", "e", "n", "i", "e", "d">>] ]

NoError == "none"

\* what dbOperation can throw: store failures, a not-found failure, and failures
\* of the upstream API called inside the operation (stats.js:469)
PrimaryErrors ==
    {"E_P1001", "E_ConnClosed", "E_NotFound", "E_Upstream500", "E_UpstreamNet"}

StoreErrors == {e \in PrimaryErrors : ErrorTable[e].origin = "store"}

----------------------------------------------------------------------------
(* Availability gate and fallback orchestrator: src/src/utils/dbFallback.js *)

\* a caller with no request in flight
IdleCall ==
    [ op              |-> "none",   \* "wcf" withCacheFallback, "check" checkDatabase,
                                    \* "force" GET /api/debug/force-cache
      pc              |-> "idle",   \* idle, probing, answered, primary, secondary, done
      fallbackToCache |-> TRUE,
      probe           |-> "none",   \* how the liveness query of this call went at the store
      isDbAvailable   |-> NULL,     \* what checkDatabase returned to this call
      primaryRuns     |-> 0,
      secondaryRuns   |-> 0,
      dbError         |-> NoError,  \* what dbOperation threw
      kind            |-> "none",   \* how the call ended: "return" or "throw"
      ret             |-> "none",   \* returned value: "db", "cache", "true", "false"
      thrown          |-> NoError ]

\* dbFallback.js:59  error.code === 'P1001' || error.message.includes('connect')
IsConnectivityError(e) ==
    \/ ErrorTable[e].code = "P1001"
    \/ Includes(ErrorTable[e].message, ConnectLiteral)

\* mutant: the gate's answer is ignored and the primary always runs
DispatchIgnoresGate(call, avail) ==
    [call EXCEPT !.isDbAvailable = avail, !.pc = "primary", !.primaryRuns = @ + 1]

\* mutant: the secondary runs whatever fallbackToCache says
DispatchFallsBackAnyway(call, avail) ==
    IF avail = "true"
    THEN [call EXCEPT !.isDbAvailable = avail, !.pc = "primary", !.primaryRuns = @ + 1]
    ELSE [call EXCEPT !.isDbAvailable = avail, !.pc = "secondary", !.secondaryRuns = @ + 1]

\* dbFallback.js:52-54 and 68-75: the branch taken once checkDatabase has answered
Dispatch(call, avail) ==
    IF avail = "true"
    THEN [call EXCEPT !.isDbAvailable = avail, !.pc = "primary",
                      !.primaryRuns = @ + 1]
    ELSE IF call.fallbackToCache
         THEN [call EXCEPT !.isDbAvailable = avail, !.pc = "secondary",
                           !.secondaryRuns = @ + 1]
         ELSE [call EXCEPT !.isDbAvailable = avail, !.pc = "done",
                           !.kind = "throw", !.thrown = "E_Disabled"]

\* mutant: the catch block falls back without calling resetDatabaseCheck
CatchDbErrorNoReset(call, e, memo) ==
    IF IsConnectivityError(e)
    THEN IF call.fallbackToCache
         THEN [call |-> [call EXCEPT !.pc = "secondary", !.secondaryRuns = @ + 1],
               memo |-> memo, reset |-> FALSE]
         ELSE [call |-> [call EXCEPT !.pc = "done", !.kind = "throw", !.thrown = e],
               memo |-> memo, reset |-> FALSE]
    ELSE [call |-> [call EXCEPT !.pc = "done", !.kind = "throw", !.thrown = e],
          memo |-> memo, reset |-> FALSE]

\* mutant: the catch block falls back whatever fallbackToCache says
CatchDbErrorAlwaysFallback(call, e, memo) ==
    IF IsConnectivityError(e)
    THEN [call |-> [call EXCEPT !.pc = "secondary", !.secondaryRuns = @ + 1],
          memo |-> NULL, reset |-> TRUE]
    ELSE [call |-> [call EXCEPT !.pc = "done", !.kind = "throw", !.thrown = e],
          memo |-> memo, reset |-> FALSE]

\* dbFallback.js:55-67: the catch block around dbOperation; yields the call, the memo
\* and whether resetDatabaseCheck was called
CatchDbError(call, e, memo) ==
    IF IsConnectivityError(e)
    THEN IF call.fallbackToCache
         THEN [call |-> [call EXCEPT !.pc = "secondary", !.secondaryRuns = @ + 1],
               memo |-> NULL, reset |-> TRUE]
         ELSE [call |-> [call EXCEPT !.pc = "done", !.kind = "throw", !.thrown = e],
               memo |-> NULL, reset |-> TRUE]
    ELSE [call |-> [call EXCEPT !.pc = "done", !.kind = "throw", !.thrown = e],
          memo |-> memo, reset |-> FALSE]

\* dbFallback.js:22: what checkDatabase returns goes to its caller
AnswerCheck(call, avail) ==
    IF call.op = "wcf"
    THEN Dispatch(call, avail)
    ELSE [call EXCEPT !.isDbAvailable = avail, !.pc = "done",
                      !.kind = "return", !.ret = avail]

\* mutant: checkDatabase returns the memo as it finds it, empty or not
EnterCheckNoProbe(call, memo) == AnswerCheck(call, memo)

\* dbFallback.js:12-13 and 22: entering checkDatabase; the liveness query is issued
\* only on an empty memo, a memoized boolean is returned as it is
EnterCheck(call, memo) ==
    IF memo = NULL
    THEN [call EXCEPT !.pc = "probing"]
    ELSE AnswerCheck(call, memo)

\* withCacheFallback is called (dbFallback.js:45-50)
WcfStart(c, fb) ==
    /\ calls[c].pc = "idle"
    /\ calls' = [calls EXCEPT ![c] =
          EnterCheck([@ EXCEPT !.op = "wcf", !.fallbackToCache = fb], dbAvailable)]
    /\ resetPending' = FALSE
    /\ UNCHANGED <<dbAvailable, dbUp, unavailSeen>>
    /\ UNCHANGED notGate

\* checkDatabase is called on its own (stats.js:385)
CheckStart(c) ==
    /\ calls[c].pc = "idle"
    /\ calls' = [calls EXCEPT ![c] =
          EnterCheck([@ EXCEPT !.op = "check"], dbAvailable)]
    /\ resetPending' = FALSE
    /\ UNCHANGED <<dbAvailable, dbUp, unavailSeen>>
    /\ UNCHANGED notGate

\* fix_server.js:216-221: resetDatabaseCheck() and then checkDatabase() in one turn
ForceCache(c) ==
    /\ calls[c].pc = "idle"
    /\ dbAvailable' = NULL
    /\ unavailSeen' = FALSE
    /\ resetPending' = FALSE
    /\ calls' = [calls EXCEPT ![c] = EnterCheck([@ EXCEPT !.op = "force"], NULL)]
    /\ UNCHANGED dbUp
    /\ UNCHANGED notGate

\* dbFallback.js:15: the liveness query of the call reaches the store, or fails to
QueryLands(c) ==
    /\ calls[c].pc = "probing"
    /\ calls' = [calls EXCEPT ![c] = [@ EXCEPT !.pc = "answered", !.probe = BoolStr(dbUp)]]
    /\ UNCHANGED <<dbAvailable, dbUp, unavailSeen, resetPending>>
    /\ UNCHANGED notGate

\* dbFallback.js:14-22: the awaited query settles in the process; the memo is
\* written (true on success, false in the catch) and returned
ProbeReturn(c) ==
    /\ calls[c].pc = "answered"
    /\ LET outcome == calls[c].probe IN
         /\ dbAvailable' = outcome
         /\ unavailSeen' = IF outcome = "false" THEN TRUE ELSE unavailSeen
         /\ calls' = [calls EXCEPT ![c] = AnswerCheck([@ EXCEPT !.probe = "none"], outcome)]
    /\ UNCHANGED <<dbUp, resetPending>>
    /\ UNCHANGED notGate

\* dbFallback.js:54: dbOperation resolves
PrimaryReturn(c) ==
    /\ calls[c].pc = "primary"
    /\ dbUp
    /\ calls' = [calls EXCEPT ![c] =
                   [@ EXCEPT !.pc = "done", !.kind = "return", !.ret = "db"]]
    /\ UNCHANGED <<dbAvailable, dbUp, unavailSeen, resetPending>>
    /\ UNCHANGED notGate

\* dbFallback.js:55-67: dbOperation rejects with e
PrimaryThrow(c, e) ==
    /\ calls[c].pc = "primary"
    /\ e \in StoreErrors => ~dbUp
    /\ LET r == CatchDbError([calls[c] EXCEPT !.dbError = e], e, dbAvailable) IN
         /\ calls' = [calls EXCEPT ![c] = r.call]
         /\ dbAvailable' = r.memo
         /\ unavailSeen' = IF r.reset THEN FALSE ELSE unavailSeen
         /\ resetPending' = IF r.reset THEN TRUE ELSE resetPending
    /\ UNCHANGED dbUp
    /\ UNCHANGED notGate

\* dbFallback.js:63 and 71: cacheOperation resolves
SecondaryReturn(c) ==
    /\ calls[c].pc = "secondary"
    /\ calls' = [calls EXCEPT ![c] =
                   [@ EXCEPT !.pc = "done", !.kind = "return", !.ret = "cache"]]
    /\ UNCHANGED <<dbAvailable, dbUp, unavailSeen, resetPending>>
    /\ UNCHANGED notGate

\* dbFallback.js:63 and 71: cacheOperation rejects
SecondaryThrow(c) ==
    /\ calls[c].pc = "secondary"
    /\ calls' = [calls EXCEPT ![c] =
                   [@ EXCEPT !.pc = "done", !.kind = "throw", !.thrown = "E_Cache"]]
    /\ UNCHANGED <<dbAvailable, dbUp, unavailSeen, resetPending>>
    /\ UNCHANGED notGate

\* the request is answered; the caller may issue another one
Retire(c) ==
    /\ calls[c].pc = "done"
    /\ calls' = [calls EXCEPT ![c] = IdleCall]
    /\ UNCHANGED <<dbAvailable, dbUp, unavailSeen, resetPending>>
    /\ UNCHANGED notGate

\* the store becomes unreachable, or reachable again
StoreGoesDown ==
    /\ dbUp
    /\ dbUp' = FALSE
    /\ UNCHANGED <<dbAvailable, calls, unavailSeen, resetPending>>
    /\ UNCHANGED notGate

StoreComesUp ==
    /\ ~dbUp
    /\ dbUp' = TRUE
    /\ UNCHANGED <<dbAvailable, calls, unavailSeen, resetPending>>
    /\ UNCHANGED notGate

GateInit ==
    /\ dbAvailable = NULL
    /\ dbUp \in BOOLEAN
    /\ calls = [c \in Callers |-> IdleCall]
    /\ unavailSeen = FALSE
    /\ resetPending = FALSE


----------------------------------------------------------------------------
(* Sync engine: AnalysisService (src/unnamed/part_003, lines 322-1123) and   *)
(* the upstream client it calls (src/src/services/spotifyService.js).        *)
(* The sync calls of this section do not overlap: a call runs to its end     *)
(* before the next one starts; syncUserPlayback advances one step at a time. *)

Users == {"u1", "u2"}
Tracks == {"t1", "t2"}

\* tracks of earlier syncs that the upstream no longer lists: with them an
\* identity can have more distinct tracks stored than a profile keeps
LongTail ==
    <<"k03", "k04", "k05", "k06", "k07", "k08", "k09", "k10", "k11", "k12",
      "k13", "k14", "k15", "k16", "k17", "k18", "k19", "k20", "k21", "k22">>

Range(list) == {list[i] : i \in 1..Len(list)}
Artists == {"a1", "a2"}

\* artists of earlier syncs that the upstream no longer lists: with them an
\* identity can have more aggregates stored than a profile keeps
ArtistTail ==
    <<"b03", "b04", "b05", "b06", "b07", "b08", "b09", "b10", "b11", "b12",
      "b13", "b14", "b15", "b16", "b17", "b18", "b19", "b20", "b21", "b22">>

\* part_003:470  new Date('2000-01-01'), the fixed playedAt of top-track rows
topTracksTimestamp == 1

\* number of plays an identity makes, one per instant, all after 2000-01-01
MaxPlayTime == 2

PlayTimes == (topTracksTimestamp + 1)..(topTracksTimestamp + MaxPlayTime)

\* longest list an upstream call returns (the calls ask for at most 50 items)
MaxResp == 2

\* cap on ArtistStat.playCount
MaxPlayCount == 3

\* part_003:349  after = null when the identity has no row
NoTime == 0

\* part_003:565-567  a feature column holding null
NoFeature == -1

\* part_003:806 and 812  .slice(0, 20) / take: 20
TopN == 20

\* what the upstream reports for a track and an artist
TrackNames == [t1 |-> "Alpha", t2 |-> "Beta"] @@ [t \in Range(LongTail) |-> "Gamma"]
TrackArtists == [t1 |-> "Ann", t2 |-> "Bob"] @@ [t \in Range(LongTail) |-> "Cy"]
TrackFeatures == [t1 |-> [energy |-> 80, valence |-> 40],
                  t2 |-> [energy |-> 20, valence |-> 60]]
ArtistGenres == [a1 |-> <<"pop", "rock">>, a2 |-> <<"pop">>]

\* a play as the upstream reports it
PlayEvent(t, at) == [trackId |-> t, playedAt |-> at]

AllPlays == {PlayEvent(t, at) : t \in Tracks, at \in PlayTimes}

\* the lists of at most MaxResp items over S, repeats allowed
ListsOver(S) == UNION {[1..n -> S] : n \in 0..MaxResp}

(* TrackStat is kept as row -> copies, so that equal rows could coexist. *)
Copies(store, r) == IF r \in DOMAIN store THEN store[r] ELSE 0

RECURSIVE SumCopies(_, _)
SumCopies(store, rows) ==
    IF rows = {} THEN 0
    ELSE LET r == CHOOSE x \in rows : TRUE
         IN store[r] + SumCopies(store, rows \ {r})

AddRow(store, r) ==
    [x \in DOMAIN store \cup {r} |-> Copies(store, x) + (IF x = r THEN 1 ELSE 0)]

\* prisma.trackStat.updateMany: every row the where clause selects is rewritten
UpdateMany(store, Where(_), Set(_)) ==
    LET hit == {r \in DOMAIN store : Where(r) /\ Set(r) # r}
        kept == DOMAIN store \ hit
    IN IF hit = {} THEN store
       ELSE [x \in kept \cup {Set(r) : r \in hit} |->
                (IF x \in kept THEN store[x] ELSE 0)
                + SumCopies(store, {r \in hit : Set(r) = x})]

RowsOf(store, u) == {r \in DOMAIN store : r.userId = u}

\* mutant: the three columns are never found equal
SameKeyNever(r, u, t, at) == FALSE

\* part_003:363-367 and stats.js:1445-1449: the composite key (userId, trackId, playedAt)
SameKey(r, u, t, at) == r.userId = u /\ r.trackId = t /\ r.playedAt = at

\* mutant: the lookup before the create leaves playedAt out
FindFirstByKeyIgnoresTime(store, u, t, at) ==
    \E r \in DOMAIN store : r.userId = u /\ r.trackId = t

\* part_003:362-368  findFirst on the composite key
FindFirstByKey(store, u, t, at) == \E r \in DOMAIN store : SameKey(r, u, t, at)

\* mutant: the lookup before the create finds nothing
FindFirstByTrackNever(store, u, t) == FALSE

\* part_003:475-481  findFirst on (userId, trackId)
FindFirstByTrack(store, u, t) == \E r \in DOMAIN store : r.userId = u /\ r.trackId = t

\* number of rows that carry one composite key
KeyCount(store, u, t, at) ==
    SumCopies(store, {r \in DOMAIN store : r.userId = u /\ r.trackId = t /\ r.playedAt = at})

\* mutant: the table has no unique index, every create writes its row
TrackStatCreateNoIndex(store, row) == [ok |-> TRUE, store |-> AddRow(store, row)]

\* prisma.trackStat.create under the unique index userId_trackId_playedAt
\* (stats.js:1445): a taken key is rejected with P2002
TrackStatCreate(store, row) ==
    IF \E r \in DOMAIN store : SameKey(r, row.userId, row.trackId, row.playedAt)
    THEN [ok |-> FALSE, store |-> store]
    ELSE [ok |-> TRUE, store |-> AddRow(store, row)]

Max(S) == CHOOSE x \in S : \A y \in S : y <= x
Min(S) == CHOOSE x \in S : \A y \in S : x <= y

\* mutant: the watermark query leaves the where clause out
LastPlayedAtAnyIdentity(store, u) ==
    IF DOMAIN store = {} THEN NoTime
    ELSE Max({r.playedAt : r \in DOMAIN store})

\* mutant: the oldest row is taken for the last one (orderBy playedAt asc)
LastPlayedAtOldest(store, u) ==
    IF RowsOf(store, u) = {} THEN NoTime
    ELSE Min({r.playedAt : r \in RowsOf(store, u)})

\* part_003:344-349  the watermark: playedAt of the identity's most recent row
LastPlayedAt(store, u) ==
    IF RowsOf(store, u) = {} THEN NoTime
    ELSE Max({r.playedAt : r \in RowsOf(store, u)})

\* the plays the upstream holds for an identity: play i happened at instant i
UpstreamPlays(u) ==
    {PlayEvent(upPlays[u][i], topTracksTimestamp + i) : i \in 1..Len(upPlays[u])}

\* spotifyService.js:98-111  what getRecentlyPlayed(50, after) can return: plays
\* after the cursor (every play when no cursor is sent), in any order, a play
\* possibly listed twice
RecentResponses(u, after) ==
    ListsOver({e \in UpstreamPlays(u) : after = NoTime \/ e.playedAt > after})

\* part_003:372-381  the row created for a recently played track
RecentRow(u, e) ==
    [userId |-> u, trackId |-> e.trackId, playedAt |-> e.playedAt,
     name |-> TrackNames[e.trackId], energy |-> NoFeature, valence |-> NoFeature]

\* part_003:360-385  the loop over the fetched plays still to handle; acc is
\* the table and the count of saved rows so far
RECURSIVE SaveNewTracks(_, _, _)
SaveNewTracks(acc, u, rest) ==
    IF rest = <<>> \/ ~acc.ok THEN acc
    ELSE IF FindFirstByKey(acc.store, u, Head(rest).trackId, Head(rest).playedAt)
         THEN SaveNewTracks(acc, u, Tail(rest))
         ELSE SaveNewTracks(
                  [store |-> TrackStatCreate(acc.store, RecentRow(u, Head(rest))).store,
                   synced |-> IF TrackStatCreate(acc.store, RecentRow(u, Head(rest))).ok
                              THEN acc.synced + 1 ELSE acc.synced,
                   ok |-> TrackStatCreate(acc.store, RecentRow(u, Head(rest))).ok],
                  u, Tail(rest))

\* part_003:341-395  syncRecentlyPlayed once the plays are fetched; a create
\* that the store rejects ends the call with the error
DoSyncRecentlyPlayed(store, u, resp) ==
    LET r == SaveNewTracks([store |-> store, synced |-> 0, ok |-> TRUE], u, resp)
    IN [store |-> r.store,
        result |-> [op |-> "recent", userId |-> u, ok |-> r.ok,
                    synced |-> r.synced, total |-> Len(resp)]]

\* part_003:501-512  the row created for a top track; names is what the
\* upstream reports for each track at the time of the call (name and artist)
TopRowAs(u, t, names) ==
    [userId |-> u, trackId |-> t, playedAt |-> topTracksTimestamp,
     name |-> names[t], energy |-> NoFeature, valence |-> NoFeature]

\* the row created for a top track that the upstream reports unchanged
TopRow(u, t) == TopRowAs(u, t, TrackNames)

\* part_003:483-497  updateMany on the rows of a track that is already stored
RefreshTrack(store, u, t, names) ==
    LET Where(r) == r.userId = u /\ r.trackId = t
        Set(r) == [r EXCEPT !.name = names[t]]
    IN UpdateMany(store, Where, Set)

\* part_003:472-521  the loop over the top tracks still to handle; a create the
\* unique index rejects (P2002) is ignored
RECURSIVE SaveTopTracks(_, _, _, _)
SaveTopTracks(acc, u, rest, names) ==
    IF rest = <<>> THEN acc
    ELSE IF FindFirstByTrack(acc.store, u, Head(rest))
         THEN SaveTopTracks(
                  [acc EXCEPT !.store = RefreshTrack(acc.store, u, Head(rest), names)],
                  u, Tail(rest), names)
         ELSE SaveTopTracks(
                  [store |-> TrackStatCreate(acc.store, TopRowAs(u, Head(rest), names)).store,
                   synced |-> IF TrackStatCreate(acc.store, TopRowAs(u, Head(rest), names)).ok
                              THEN acc.synced + 1 ELSE acc.synced],
                  u, Tail(rest), names)

\* part_003:565-567  features.energy || null
OrNull(x) == IF x = 0 THEN NoFeature ELSE x

\* part_003:559-571  updateMany writing a track's audio features on its rows
WriteFeatures(store, u, t) ==
    LET Where(r) == r.userId = u /\ r.trackId = t
        Set(r) == [r EXCEPT !.energy = OrNull(TrackFeatures[t].energy),
                            !.valence = OrNull(TrackFeatures[t].valence)]
    IN UpdateMany(store, Where, Set)

\* part_003:553-576  the loop over the track ids whose features were fetched
RECURSIVE MergeFeatures(_, _, _)
MergeFeatures(store, u, rest) ==
    IF rest = <<>> THEN store
    ELSE MergeFeatures(WriteFeatures(store, u, Head(rest)), u, Tail(rest))

\* part_003:455-587  syncTopTracks once the top tracks are fetched; feats says
\* whether the audio features batch was answered (a failed batch is skipped)
DoSyncTopTracksAs(store, u, tops, feats, names) ==
    LET r == SaveTopTracks([store |-> store, synced |-> 0], u, tops, names)
    IN [store |-> IF feats THEN MergeFeatures(r.store, u, tops) ELSE r.store,
        result |-> [op |-> "tracks", userId |-> u, ok |-> TRUE,
                    synced |-> r.synced, total |-> Len(tops)]]

\* syncTopTracks when the upstream reports every track unchanged
DoSyncTopTracks(store, u, tops, feats) ==
    DoSyncTopTracksAs(store, u, tops, feats, TrackNames)

\* an identity's artists before any sync
NoArtist == [present |-> FALSE, playCount |-> 0, genres |-> <<>>]

\* mutant: the update branch writes the playCount of a new aggregate
UpsertArtistReplaces(row, a) ==
    [present |-> TRUE, playCount |-> 1, genres |-> ArtistGenres[a]]

\* part_003:414-437  prisma.artistStat.upsert on (userId, artistId)
UpsertArtist(row, a) ==
    IF row.present
    THEN [row EXCEPT !.playCount = @ + 1, !.genres = ArtistGenres[a]]
    ELSE [present |-> TRUE, playCount |-> 1, genres |-> ArtistGenres[a]]

\* part_003:412-439  the loop over the top artists still to handle
RECURSIVE SaveTopArtists(_, _)
SaveTopArtists(rows, rest) ==
    IF rest = <<>> THEN rows
    ELSE SaveTopArtists([rows EXCEPT ![Head(rest)] = UpsertArtist(@, Head(rest))],
                        Tail(rest))

\* occurrences of x in a list
RECURSIVE Occurrences(_, _)
Occurrences(list, x) ==
    IF list = <<>> THEN 0
    ELSE (IF Head(list) = x THEN 1 ELSE 0) + Occurrences(Tail(list), x)

\* the order in which the store lists tracks and artists when none is asked for
TrackOrder == <<"t1", "t2">> \o LongTail
ArtistOrder == <<"a1", "a2">> \o ArtistTail

\* part_003:790-802  trackCounts[trackId].plays: one per TrackStat row
PlaysOf(store, u, t) ==
    SumCopies(store, {r \in DOMAIN store : r.userId = u /\ r.trackId = t})

\* Array.prototype.sort((a, b) => b.plays - a.plays): descending and stable
RECURSIVE InsertDesc(_, _)
InsertDesc(sorted, x) ==
    IF sorted = <<>> THEN <<x>>
    ELSE IF Head(sorted).plays >= x.plays
         THEN <<Head(sorted)>> \o InsertDesc(Tail(sorted), x)
         ELSE <<x>> \o sorted

\* mutant: the counted tracks are sliced unsorted
SortDescKeepsOrder(list) == list

RECURSIVE SortDesc(_)
SortDesc(list) ==
    IF list = <<>> THEN <<>>
    ELSE InsertDesc(SortDesc(SubSeq(list, 1, Len(list) - 1)), list[Len(list)])

\* .slice(0, k) / take: k
Take(list, k) == SubSeq(list, 1, IF Len(list) < k THEN Len(list) ELSE k)

\* part_003:778-806  topTracks
ProfileTopTracks(store, u) ==
    LET Played(t) == PlaysOf(store, u, t) > 0
        counted == SelectSeq(TrackOrder, Played)
        items == [i \in 1..Len(counted) |->
                    [trackId |-> counted[i], name |-> TrackNames[counted[i]],
                     artist |-> TrackArtists[counted[i]],
                     plays |-> PlaysOf(store, u, counted[i])]]
    IN Take(SortDesc(items), TopN)

\* part_003:809-829  topArtists
ProfileTopArtists(arts) ==
    LET Present(a) == a \in DOMAIN arts /\ arts[a].present
        found == SelectSeq(ArtistOrder, Present)
        items == [i \in 1..Len(found) |->
                    [artistId |-> found[i], plays |-> arts[found[i]].playCount,
                     genres |-> arts[found[i]].genres]]
    IN Take(SortDesc(items), TopN)

\* part_003:835  artist.playCount || 1,  artist.genres?.length || 1
OrOne(x) == IF x = 0 THEN 1 ELSE x

\* part_003:832-845  totalGenreWeight
RECURSIVE TotalGenreWeight(_)
TotalGenreWeight(top) ==
    IF top = <<>> THEN 0
    ELSE OrOne(Head(top).plays) * OrOne(Len(Head(top).genres))
         + TotalGenreWeight(Tail(top))

\* part_003:838-843  genreWeights[genre]
RECURSIVE GenreWeight(_, _)
GenreWeight(top, g) ==
    IF top = <<>> THEN 0
    ELSE OrOne(Head(top).plays) * Occurrences(Head(top).genres, g)
         + GenreWeight(Tail(top), g)

\* part_003:848-862  genreDist: genre -> <<weight, total weight>>, the quotient
ProfileGenreDist(top) ==
    LET named == UNION {{top[i].genres[j] : j \in 1..Len(top[i].genres)} : i \in 1..Len(top)}
    IN IF TotalGenreWeight(top) > 0
       THEN [g \in named |-> <<GenreWeight(top, g), TotalGenreWeight(top)>>]
       ELSE <<>>

\* an average that is null
NoAverage == <<0, 0>>

\* part_003:892-913  the weighted average of one feature column over the rows
\* that have both features, as <<weighted sum, total weight>>
RECURSIVE WeightedSum(_, _, _, _)
WeightedSum(store, u, rows, col) ==
    IF rows = {} THEN <<0, 0>>
    ELSE LET r == CHOOSE x \in rows : TRUE
             rest == WeightedSum(store, u, rows \ {r}, col)
             weight == OrOne(PlaysOf(store, u, r.trackId))
         IN <<rest[1] + store[r] * r[col] * weight, rest[2] + store[r] * weight>>

ProfileAverage(store, u, col) ==
    LET rows == {r \in RowsOf(store, u) : r.energy # NoFeature /\ r.valence # NoFeature}
        sum == WeightedSum(store, u, rows, col)
    IN IF sum[2] > 0 THEN sum ELSE NoAverage

\* an identity without a MusicProfile row
NoProfile ==
    [present |-> FALSE, topTracks |-> <<>>, topArtists |-> <<>>, genreDist |-> <<>>,
     avgEnergy |-> NoAverage, avgValence |-> NoAverage]

\* part_003:775-941  buildMusicProfile: the document the upsert writes
BuildMusicProfile(store, arts, u) ==
    [present |-> TRUE,
     topTracks |-> ProfileTopTracks(store, u),
     topArtists |-> ProfileTopArtists(arts),
     genreDist |-> ProfileGenreDist(ProfileTopArtists(arts)),
     avgEnergy |-> ProfileAverage(store, u, "energy"),
     avgValence |-> ProfileAverage(store, u, "valence")]


\* no syncUserPlayback in progress
IdleJob == [userId |-> "none", step |-> "idle"]

\* no sync call has returned yet
NoResult ==
    [op |-> "none", userId |-> "none", ok |-> TRUE, synced |-> 0, total |-> 0,
     repeat |-> FALSE]

\* the outcome of a call, with the history flag repeat: the call before it was
\* the same operation for the same identity and ended the same way
Stamp(res) ==
    [op |-> res.op, userId |-> res.userId, ok |-> res.ok, synced |-> res.synced,
     total |-> res.total,
     repeat |-> /\ syncResult.op = res.op
                /\ syncResult.userId = res.userId
                /\ syncResult.ok = res.ok
                /\ syncResult.synced = res.synced]

Failure(op, u) == [op |-> op, userId |-> u, ok |-> FALSE, synced |-> 0, total |-> 0]

InJob(u, step) == job.userId = u /\ job.step = step

\* calls do not overlap: a call starts on its own when no syncUserPlayback is
\* in progress, or as the step its syncUserPlayback has reached
CanRun(u, step) == job.step = "idle" \/ InJob(u, step)

\* mutant: syncUserPlayback goes on to the next step after a failed one
JobAfterGoesOn(u, step, ok, next) ==
    IF InJob(u, step)
    THEN IF step = "recent" THEN [userId |-> u, step |-> "tracks"]
         ELSE IF step = "tracks" THEN [userId |-> u, step |-> "artists"]
         ELSE IF step = "artists" THEN [userId |-> u, step |-> "profile"]
         ELSE IdleJob
    ELSE job

\* part_003:594-622  syncUserPlayback moves on after a step, or rethrows
JobAfter(u, step, ok, next) ==
    IF InJob(u, step)
    THEN IF ok /\ next # "idle" THEN [userId |-> u, step |-> next] ELSE IdleJob
    ELSE job

\* the identity plays track t: the upstream records it at the next instant
Listen(u, t) ==
    /\ Len(upPlays[u]) < MaxPlayTime
    /\ upPlays' = [upPlays EXCEPT ![u] = Append(@, t)]
    /\ UNCHANGED <<trackStat, artistStat, musicProfile, job, syncResult>>
    /\ UNCHANGED notSync

\* part_003:594-599  syncUserPlayback is called
StartPlayback(u) ==
    /\ job.step = "idle"
    /\ job' = [userId |-> u, step |-> "recent"]
    /\ UNCHANGED <<trackStat, artistStat, musicProfile, upPlays, syncResult>>
    /\ UNCHANGED notSync

\* part_003:341-395  syncRecentlyPlayed with the upstream answering resp, one of
\* RecentResponses(u, LastPlayedAt(trackStat, u))
SyncRecentlyPlayed(u, resp) ==
    /\ CanRun(u, "recent")
    /\ resp \in RecentResponses(u, LastPlayedAt(trackStat, u))
    /\ LET r == DoSyncRecentlyPlayed(trackStat, u, resp)
       IN /\ trackStat' = r.store
          /\ syncResult' = Stamp(r.result)
          /\ job' = JobAfter(u, "recent", r.result.ok, "tracks")
    /\ UNCHANGED <<artistStat, musicProfile, upPlays>>
    /\ UNCHANGED notSync

\* part_003:455-587  syncTopTracks with the upstream answering tops and
\* reporting the tracks under names
SyncTopTracksAs(u, tops, feats, names) ==
    /\ CanRun(u, "tracks")
    /\ LET r == DoSyncTopTracksAs(trackStat, u, tops, feats, names)
       IN /\ trackStat' = r.store
          /\ syncResult' = Stamp(r.result)
          /\ job' = JobAfter(u, "tracks", r.result.ok, "artists")
    /\ UNCHANGED <<artistStat, musicProfile, upPlays>>
    /\ UNCHANGED notSync

\* syncTopTracks when the upstream reports every track unchanged
SyncTopTracks(u, tops, feats) == SyncTopTracksAs(u, tops, feats, TrackNames)

\* part_003:401-448  syncTopArtists with the upstream answering arts; the
\* result has no total
SyncTopArtists(u, arts) ==
    /\ CanRun(u, "artists")
    /\ LET rows == SaveTopArtists(artistStat[u], arts)
       IN /\ \A a \in Artists : rows[a].playCount <= MaxPlayCount
          /\ artistStat' = [artistStat EXCEPT ![u] = rows]
          /\ syncResult' = Stamp([op |-> "artists", userId |-> u, ok |-> TRUE,
                                  synced |-> Len(arts), total |-> 0])
          /\ job' = JobAfter(u, "artists", TRUE, "profile")
    /\ UNCHANGED <<trackStat, musicProfile, upPlays>>
    /\ UNCHANGED notSync

\* part_003:775-941  buildMusicProfile
BuildProfile(u) ==
    /\ CanRun(u, "profile")
    /\ musicProfile' = [musicProfile EXCEPT ![u] = BuildMusicProfile(trackStat, artistStat[u], u)]
    /\ syncResult' = Stamp([op |-> IF InJob(u, "profile") THEN "playback" ELSE "profile",
                            userId |-> u, ok |-> TRUE, synced |-> 0, total |-> 0])
    /\ job' = JobAfter(u, "profile", TRUE, "idle")
    /\ UNCHANGED <<trackStat, artistStat, upPlays>>
    /\ UNCHANGED notSync

SyncOps == {"recent", "tracks", "artists", "profile"}

\* a call fails before it wrote anything (the upstream call times out or is
\* refused, the first query is rejected): the error is logged and rethrown
SyncFails(u, op) ==
    /\ CanRun(u, op)
    /\ syncResult' = Stamp(Failure(op, u))
    /\ job' = JobAfter(u, op, FALSE, "idle")
    /\ UNCHANGED <<trackStat, artistStat, musicProfile, upPlays>>
    /\ UNCHANGED notSync

----------------------------------------------------------------------------
(* Cache store: LocalCache (src/src/services/spotifyService.js, lines 499-661). *)
(* A value handed to save is a JavaScript value; what is written is the JSON   *)
(* text of an envelope around it, held here as the document the text denotes. *)

\* JavaScript values
JsNull == [t |-> "null"]
JsUndefined == [t |-> "undefined"]
JsBool(b) == [t |-> "bool", b |-> b]
\* the number n/d; d = 0 stands for NaN
JsNum(n, d) == [t |-> "num", n |-> n, d |-> d]
JsStr(str) == [t |-> "str", s |-> str]
JsDate(iso) == [t |-> "date", iso |-> iso]
JsArr(items) == [t |-> "arr", items |-> items]
\* an object: its own properties <<key, value>> in insertion order
JsObj(props) == [t |-> "obj", props |-> props]

\* JSON documents
JNull == [j |-> "null"]
JBool(b) == [j |-> "bool", b |-> b]
JNum(n, d) == [j |-> "num", n |-> n, d |-> d]
JStr(str) == [j |-> "str", s |-> str]
JArr(items) == [j |-> "arr", items |-> items]
JObj(props) == [j |-> "obj", props |-> props]

\* JSON.stringify(undefined) is undefined: there is no text
NoText == [j |-> "undefined"]

\* JSON.stringify: NaN becomes null, a Date its ISO string, undefined becomes
\* null inside an array and drops its property inside an object
RECURSIVE Stringify(_)
StringifyValue(v) ==
    CASE v.t = "null" -> JNull
      [] v.t = "undefined" -> NoText
      [] v.t = "bool" -> JBool(v.b)
      [] v.t = "num" -> IF v.d = 0 THEN JNull ELSE JNum(v.n, v.d)
      [] v.t = "str" -> JStr(v.s)
      [] v.t = "date" -> JStr(v.iso)
      [] v.t = "arr" ->
            JArr([i \in 1..Len(v.items) |->
                    IF v.items[i].t = "undefined" THEN JNull ELSE Stringify(v.items[i])])
      [] v.t = "obj" ->
            LET Defined(prop) == prop[2].t # "undefined"
                kept == SelectSeq(v.props, Defined)
            IN JObj([i \in 1..Len(kept) |-> <<kept[i][1], Stringify(kept[i][2])>>])

Stringify(x) == CHOOSE doc \in {StringifyValue(v) : v \in {x}} : TRUE

\* JSON.parse
RECURSIVE Parse(_)
ParseDocument(doc) ==
    CASE doc.j = "null" -> JsNull
      [] doc.j = "bool" -> JsBool(doc.b)
      [] doc.j = "num" -> JsNum(doc.n, doc.d)
      [] doc.j = "str" -> JsStr(doc.s)
      [] doc.j = "arr" -> JsArr([i \in 1..Len(doc.items) |-> Parse(doc.items[i])])
      [] doc.j = "obj" ->
            JsObj([i \in 1..Len(doc.props) |-> <<doc.props[i][1], Parse(doc.props[i][2])>>])

Parse(x) == CHOOSE v \in {ParseDocument(doc) : doc \in {x}} : TRUE

\* the names of an object's own properties
Keys(obj) == {obj.props[i][1] : i \in 1..Len(obj.props)}

\* obj[key]: undefined when the object has no such property
Member(obj, key) ==
    IF key \in Keys(obj)
    THEN obj.props[CHOOSE i \in 1..Len(obj.props) : obj.props[i][1] = key][2]
    ELSE JsUndefined

\* deep equality: arrays by position, objects by property name
RECURSIVE DeepEqual(_, _)
DeepEqual(a, b) ==
    IF a.t # b.t THEN FALSE
    ELSE CASE a.t = "arr" ->
                /\ Len(a.items) = Len(b.items)
                /\ \A i \in 1..Len(a.items) : DeepEqual(a.items[i], b.items[i])
           [] a.t = "obj" ->
                /\ Keys(a) = Keys(b)
                /\ \A k \in Keys(a) : DeepEqual(Member(a, k), Member(b, k))
           [] OTHER -> a = b

\* a value JSON can express: null, booleans, numbers other than NaN, strings,
\* arrays and plain objects of such values
RECURSIVE IsJson(_)
IsJson(v) ==
    CASE v.t \in {"null", "bool", "str"} -> TRUE
      [] v.t = "num" -> v.d # 0
      [] v.t = "arr" -> \A i \in 1..Len(v.items) : IsJson(v.items[i])
      [] v.t = "obj" -> \A i \in 1..Len(v.props) : IsJson(v.props[i][2])
      [] OTHER -> FALSE

\* new Date().toISOString(): some instant, as text
IsoInstant == "<instant>"

\* the identities and labels the cache is called with on its own
CacheIds == {"temp_john", "temp_john_doe"}
CacheLabels == {"profile", "doe_profile"}

\* the labels GET /profile uses (stats.js:478-535)
ProfileLabels == {"profile", "topTracks", "topArtists", "recentTracks"}

\* a text cut at its underscores
Segments ==
    ("u1" :> <<"u1">>) @@ ("u2" :> <<"u2">>)
    @@ ("temp_john" :> <<"temp", "john">>)
    @@ ("temp_john_doe" :> <<"temp", "john", "doe">>)
    @@ ("profile" :> <<"profile">>) @@ ("doe_profile" :> <<"doe", "profile">>)
    @@ ("topTracks" :> <<"topTracks">>) @@ ("topArtists" :> <<"topArtists">>)
    @@ ("recentTracks" :> <<"recentTracks">>) @@ ("tokens" :> <<"tokens">>)

\* spotifyService.js:532-535  `${userId}_${dataType}.json` in the cache
\* directory, as the file name cut at its underscores
getCacheFilePath(userId, dataType) == Segments[userId] \o Segments[dataType]

FileNames ==
    {getCacheFilePath(i, l) : i \in CacheIds, l \in CacheLabels}
    \cup {getCacheFilePath(u, l) : u \in Users, l \in ProfileLabels}
    \cup {getCacheFilePath(i, "tokens") : i \in CacheIds}

\* no file of that name
NoFile == [j |-> "absent"]

\* spotifyService.js:545-550  cacheData
Envelope(userId, dataType, data) ==
    JsObj(<< <<"userId", JsStr(userId)>>, <<"dataType", JsStr(dataType)>>,
             <<"data", data>>, <<"cachedAt", JsStr(IsoInstant)>> >>)

\* spotifyService.js:540-559  save: the file is replaced
LocalCacheSave(files, userId, dataType, data) ==
    [files EXCEPT ![getCacheFilePath(userId, dataType)] =
        Stringify(Envelope(userId, dataType, data))]

\* mutant: load hands back the envelope, not its data
LocalCacheLoadEnvelope(files, userId, dataType) ==
    IF files[getCacheFilePath(userId, dataType)] = NoFile THEN JsNull
    ELSE Parse(files[getCacheFilePath(userId, dataType)])

\* spotifyService.js:564-577  load: cacheData.data, null when there is no file
LocalCacheLoad(files, userId, dataType) ==
    IF files[getCacheFilePath(userId, dataType)] = NoFile THEN JsNull
    ELSE Member(Parse(files[getCacheFilePath(userId, dataType)]), "data")

\* spotifyService.js:634-646  delete: unlink, a missing file is not an error
LocalCacheDelete(files, userId, dataType) ==
    [files EXCEPT ![getCacheFilePath(userId, dataType)] = NoFile]

\* the values save is called with: JSON values, and values JSON cannot express
JsonSamples ==
    {JsNull, JsStr("x"),
     JsObj(<< <<"a", JsArr(<<JsNum(1, 1), JsNull>>)>>, <<"b", JsBool(TRUE)>> >>)}

OtherSamples ==
    {JsUndefined,
     JsObj(<< <<"a", JsUndefined>>, <<"b", JsNum(0, 0)>>, <<"c", JsDate(IsoInstant)>> >>)}

\* no save is followed
NoSave == [userId |-> "none", dataType |-> "none", data |-> JsUndefined, alone |-> TRUE]

NoIO == [op |-> "none", userId |-> "none", dataType |-> "none", value |-> JsUndefined]

\* the save that is followed: the first one, then each save to its key; a
\* delete of its key ends it. alone says that no other key with the same file
\* name was written in between
Follow(op, userId, dataType, data) ==
    IF saved = NoSave
    THEN IF op = "save"
         THEN [userId |-> userId, dataType |-> dataType, data |-> data, alone |-> TRUE]
         ELSE NoSave
    ELSE IF saved.userId = userId /\ saved.dataType = dataType
    THEN IF op = "save"
         THEN [userId |-> userId, dataType |-> dataType, data |-> data, alone |-> TRUE]
         ELSE NoSave
    ELSE IF getCacheFilePath(userId, dataType) = getCacheFilePath(saved.userId, saved.dataType)
    THEN [saved EXCEPT !.alone = FALSE]
    ELSE saved

\* LocalCache.save(userId, dataType, data)
CacheSave(userId, dataType, data) ==
    /\ cacheFiles' = LocalCacheSave(cacheFiles, userId, dataType, data)
    /\ saved' = Follow("save", userId, dataType, data)
    /\ cacheIO' = NoIO
    /\ UNCHANGED notCache

\* LocalCache.load(userId, dataType)
CacheLoad(userId, dataType) ==
    /\ cacheIO' = [op |-> "load", userId |-> userId, dataType |-> dataType,
                   value |-> LocalCacheLoad(cacheFiles, userId, dataType)]
    /\ UNCHANGED <<cacheFiles, saved>>
    /\ UNCHANGED notCache

\* LocalCache.delete(userId, dataType), reached through DELETE /:dataType
\* (stats.js:1491-1494) with the label taken from the request path
CacheDelete(userId, dataType) ==
    /\ cacheFiles[getCacheFilePath(userId, dataType)] # NoFile
    /\ cacheFiles' = LocalCacheDelete(cacheFiles, userId, dataType)
    /\ saved' = Follow("delete", userId, dataType, JsUndefined)
    /\ cacheIO' = NoIO
    /\ UNCHANGED notCache

\* the name of a file as text: its segments joined by underscores, and .json
RECURSIVE JoinName(_)
JoinName(segs) ==
    IF Len(segs) = 1 THEN segs[1] \o ".json"
    ELSE segs[1] \o "_" \o JoinName(Tail(segs))

\* String.prototype.startsWith(`${userId}_`) on a file name
StartsWithId(file, userId) ==
    /\ Len(file) > Len(Segments[userId])
    /\ SubSeq(file, 1, Len(Segments[userId])) = Segments[userId]

\* a set as a list, in the order the directory gives its entries
RECURSIVE Entries(_)
Entries(S) ==
    IF S = {} THEN <<>>
    ELSE LET f == CHOOSE x \in S : TRUE IN <<JsStr(JoinName(f))>> \o Entries(S \ {f})

\* spotifyService.js:600-609  listUserCaches: the names in the directory that
\* start with the identity's id and an underscore
ListUserCaches(files, userId) ==
    Entries({f \in DOMAIN files : files[f] # NoFile /\ StartsWithId(f, userId)})

\* LocalCache.listUserCaches(userId), as GET /api/cache calls it (stats.js:1352)
CacheList(userId) ==
    /\ cacheIO' = [op |-> "list", userId |-> userId, dataType |-> "none",
                   value |-> JsArr(ListUserCaches(cacheFiles, userId))]
    /\ UNCHANGED <<cacheFiles, saved>>
    /\ UNCHANGED notCache

\* an empty cache directory, nothing loaded
CacheIdle ==
    /\ cacheFiles = [f \in FileNames |-> NoFile]
    /\ saved = NoSave
    /\ cacheIO = NoIO

----------------------------------------------------------------------------
(* The profile read: GET /profile (src/src/routes/stats.js, lines 449-560),    *)
(* one request at a time, from the gate's answer to the response.            *)

\* a list mapped item by item
MapSeq(list, F(_)) == [i \in 1..Len(list) |-> F(list[i])]

\* spotifyService.js:157-166  an item of getTopTracks
UpTrackJs(t) ==
    JsObj(<< <<"trackId", JsStr(t)>>, <<"name", JsStr(TrackNames[t])>>,
             <<"artist", JsStr(TrackArtists[t])>> >>)

\* spotifyService.js:189-195  an item of getTopArtists
UpArtistJs(a) ==
    JsObj(<< <<"artistId", JsStr(a)>>, <<"genres", JsArr(MapSeq(ArtistGenres[a], JsStr))>> >>)

\* spotifyService.js:118-130  an item of getRecentlyPlayed: playedAt is a Date
UpPlayJs(e) ==
    JsObj(<< <<"trackId", JsStr(e.trackId)>>, <<"name", JsStr(TrackNames[e.trackId])>>,
             <<"artist", JsStr(TrackArtists[e.trackId])>>,
             <<"playedAt", JsDate(ToString(e.playedAt))>> >>)

\* stats.js:516-532  the degraded profile built from upstream lists
DegradedProfile(tops, arts) ==
    LET TrackItem(t) ==
            JsObj(<< <<"trackId", JsStr(t)>>, <<"name", JsStr(TrackNames[t])>>,
                     <<"plays", JsNum(1, 1)>> >>)
        ArtistItem(a) ==
            JsObj(<< <<"artistId", JsStr(a)>>, <<"plays", JsNum(1, 1)>>,
                     <<"genres", JsArr(MapSeq(ArtistGenres[a], JsStr))>> >>)
    IN JsObj(<< <<"topTracks", JsArr(MapSeq(tops, TrackItem))>>,
                <<"topArtists", JsArr(MapSeq(arts, ArtistItem))>>,
                <<"genreDist", JsObj(<<>>)>>,
                <<"avgEnergy", JsNull>>,
                <<"avgValence", JsNull>>,
                <<"lastUpdated", JsStr(IsoInstant)>> >>)

GenreOrder == <<"pop", "rock">>

\* an average as a JavaScript value
AverageJs(avg) == IF avg = NoAverage THEN JsNull ELSE JsNum(avg[1], avg[2])

\* stats.js:462-464  the MusicProfile row as prisma.musicProfile.findUnique
\* returns it; lastUpdated is a Date
ProfileRowJs(p) ==
    LET TrackItem(it) ==
            JsObj(<< <<"trackId", JsStr(it.trackId)>>, <<"name", JsStr(it.name)>>,
                     <<"artist", JsStr(it.artist)>>, <<"plays", JsNum(it.plays, 1)>> >>)
        ArtistItem(it) ==
            JsObj(<< <<"artistId", JsStr(it.artistId)>>, <<"plays", JsNum(it.plays, 1)>>,
                     <<"genres", JsArr(MapSeq(it.genres, JsStr))>> >>)
        Listed(g) == g \in DOMAIN p.genreDist
        genres == SelectSeq(GenreOrder, Listed)
    IN JsObj(<< <<"topTracks", JsArr(MapSeq(p.topTracks, TrackItem))>>,
                <<"topArtists", JsArr(MapSeq(p.topArtists, ArtistItem))>>,
                <<"genreDist",
                  JsObj([i \in 1..Len(genres) |->
                           <<genres[i], JsNum(p.genreDist[genres[i]][1],
                                             p.genreDist[genres[i]][2])>>])>>,
                <<"avgEnergy", AverageJs(p.avgEnergy)>>,
                <<"avgValence", AverageJs(p.avgValence)>>,
                <<"lastUpdated", JsDate(IsoInstant)>> >>)

\* a value that counts as false in a condition
Falsy(v) ==
    \/ v.t \in {"null", "undefined"}
    \/ v.t = "bool" /\ ~v.b
    \/ v.t = "num" /\ (v.n = 0 \/ v.d = 0)
    \/ v.t = "str" /\ v.s = ""

\* a || b
JsOr(a, b) == IF Falsy(a) THEN b ELSE a

\* stats.js:548-555  the object handed to res.json
ProfileBody(profile) ==
    JsObj(<< <<"topTracks", JsOr(Member(profile, "topTracks"), JsArr(<<>>))>>,
             <<"topArtists", JsOr(Member(profile, "topArtists"), JsArr(<<>>))>>,
             <<"genreDist", JsOr(Member(profile, "genreDist"), JsObj(<<>>))>>,
             <<"avgEnergy", Member(profile, "avgEnergy")>>,
             <<"avgValence", Member(profile, "avgValence")>>,
             <<"lastUpdated", Member(profile, "lastUpdated")>> >>)

\* nothing sent yet
NoResponse == [status |-> "none", path |-> "none", userId |-> "none", body |-> NoText]

\* stats.js:543-555  the response for what withCacheFallback returned; path is
\* the operation that produced it
Respond(u, path, profile) ==
    IF Falsy(profile)
    THEN [status |-> "404", path |-> path, userId |-> u,
          body |-> Stringify(JsObj(<< <<"error", JsStr("Failed to create music profile")>> >>))]
    ELSE [status |-> "200", path |-> path, userId |-> u,
          body |-> Stringify(ProfileBody(profile))]

\* stats.js:556-559  the response when withCacheFallback threw
RespondError(u) ==
    [status |-> "500", path |-> "none", userId |-> u,
     body |-> Stringify(JsObj(<< <<"error", JsStr("Failed to fetch music profile")>> >>))]

\* mutant: the secondary operation builds and saves a profile whether or not a
\* snapshot is cached
ProfileFromCacheRebuilds(files, u, tops, arts, plays) ==
    [files |-> LocalCacheSave(files, u, "profile", DegradedProfile(tops, arts)),
     profile |-> DegradedProfile(tops, arts)]

\* stats.js:477-539  the secondary operation: the files it leaves and the
\* profile it returns, with the upstream answering tops, arts and plays (a
\* fetch that fails counts as an empty list)
ProfileFromCache(files, u, tops, arts, plays) ==
    IF Falsy(LocalCacheLoad(files, u, "profile"))
    THEN [files |->
            LocalCacheSave(
              LocalCacheSave(
                LocalCacheSave(
                  LocalCacheSave(files, u, "topTracks", JsArr(MapSeq(tops, UpTrackJs))),
                  u, "topArtists", JsArr(MapSeq(arts, UpArtistJs))),
                u, "recentTracks", JsArr(MapSeq(plays, UpPlayJs))),
              u, "profile", DegradedProfile(tops, arts)),
          profile |-> DegradedProfile(tops, arts)]
    ELSE [files |-> files, profile |-> LocalCacheLoad(files, u, "profile")]

\* part_003:594-622  syncUserPlayback run to its end inside the primary
\* operation: the tables it leaves
PlaybackDone(u, plays, tops, arts) ==
    LET rows == DoSyncTopTracks(DoSyncRecentlyPlayed(trackStat, u, plays).store,
                                u, tops, FALSE).store
        aggs == SaveTopArtists(artistStat[u], arts)
    IN [trackStat |-> rows, artists |-> aggs,
        profile |-> BuildMusicProfile(rows, aggs, u)]

\* dbFallback.js:12-23  what checkDatabase answers a request that runs alone
GateAnswer == IF dbAvailable = NULL THEN BoolStr(dbUp) ELSE dbAvailable

\* the errors syncUserPlayback can end with inside the primary operation
SyncErrors == {"E_Upstream500", "E_UpstreamNet"}

\* how the primary operation of GET /profile ends (stats.js:461-476)
PrimaryEnd(u, e) ==
    IF ~dbUp THEN "E_P1001"
    ELSE IF musicProfile[u].present THEN "found"
    ELSE IF e = NoError THEN "synced"
    ELSE e

\* the ways the sync inside the primary operation can end for a request that
\* starts now: NoError alone when the request does not get to the sync
SyncEnds(u) ==
    IF GateAnswer = "true" /\ dbUp /\ ~musicProfile[u].present
    THEN {NoError} \cup SyncErrors
    ELSE {NoError}

\* the request asks the upstream for its lists: in the sync of the primary
\* operation, or in the secondary operation when no profile snapshot is cached
Fetches(u, e) ==
    LET end == PrimaryEnd(u, e)
        primary == GateAnswer = "true"
    IN \/ primary /\ end = "synced"
       \/ /\ ~primary \/ (end \notin {"found", "synced"} /\ IsConnectivityError(end))
          /\ Falsy(LocalCacheLoad(cacheFiles, u, "profile"))

\* what the upstream can answer the request: nothing is asked when the request
\* does not fetch
PlaysFetched(u, e) ==
    IF ~Fetches(u, e) THEN {<<>>}
    ELSE IF GateAnswer = "true" /\ PrimaryEnd(u, e) = "synced"
         THEN RecentResponses(u, LastPlayedAt(trackStat, u))
         ELSE RecentResponses(u, NoTime)

\* a top list of the upstream as a profile read sees it: empty, or one entry
ListsFetched(u, e, S) ==
    IF Fetches(u, e) THEN {<<>>} \cup {<<x>> : x \in S} ELSE {<<>>}

\* GET /profile for identity u, start to response. e is how the sync inside
\* the primary operation ends, one of SyncEnds(u); plays, tops and arts are
\* the upstream's answers, from PlaysFetched and ListsFetched
GetProfile(u, e, plays, tops, arts) ==
    LET end == PrimaryEnd(u, e)
        primary == GateAnswer = "true"
        caught == primary /\ end \notin {"found", "synced"}
        fallback == caught /\ IsConnectivityError(end)
        secondary == ~primary \/ fallback
    IN \E done \in {PlaybackDone(u, plays, tops, arts)},
          cached \in {ProfileFromCache(cacheFiles, u, tops, arts, plays)} :
       /\ \A c \in Callers : calls[c].pc = "idle"
       /\ job.step = "idle"
       /\ primary /\ end = "synced" =>
             \A a \in Artists : done.artists[a].playCount <= MaxPlayCount
       /\ dbAvailable' = IF fallback THEN NULL ELSE GateAnswer
       /\ unavailSeen' = (GateAnswer = "false")
       /\ resetPending' = fallback
       /\ IF primary /\ end = "synced"
          THEN /\ trackStat' = done.trackStat
               /\ artistStat' = [artistStat EXCEPT ![u] = done.artists]
               /\ musicProfile' = [musicProfile EXCEPT ![u] = done.profile]
          ELSE UNCHANGED <<trackStat, artistStat, musicProfile>>
       /\ cacheFiles' = IF secondary THEN cached.files ELSE cacheFiles
       /\ response' =
             IF secondary THEN Respond(u, "cache", cached.profile)
             ELSE IF caught THEN RespondError(u)
             ELSE IF end = "synced" THEN Respond(u, "store", ProfileRowJs(done.profile))
             ELSE Respond(u, "store", ProfileRowJs(musicProfile[u]))
       /\ UNCHANGED <<dbUp, calls, upPlays, job, syncResult, saved, cacheIO>>
       /\ UNCHANGED <<upstreamVars, batchVars, raceVars>>

----------------------------------------------------------------------------
(* Token provider: tokenManager.js (src/unnamed/part_006). Instants are     *)
(* counted in minutes.                                                      *)

\* identities that ask for a token: a full one and a provisional one
TokenUsers == {"u1", "temp_john"}

\* number of refresh exchanges the upstream auth endpoint is asked for
MaxExchanges == 2

\* part_006:75  Date.now()
NowMinute == 100

\* part_006:74  a tokenExpiresAt that is null or undefined
NoExpiry == 0

\* part_006:75  5 * 60 * 1000
ExpiryMargin == 5

\* part_006:61-63  expires_in of the token endpoint, one hour
ExpiresIn == 60

\* expiries an identity can carry: none, past, inside the margin, at the
\* margin, beyond it
ExpirySamples ==
    {NoExpiry, NowMinute - 1, NowMinute + 4, NowMinute + ExpiryMargin, NowMinute + 10}

Minutes == ExpirySamples \cup {NowMinute + ExpiresIn}

\* the access token of the n-th exchange; AccessToken(0) is the one of the login
AccessToken(n) == "tok" \o ToString(n)

NoToken == ""

\* Date.prototype.toISOString and new Date(text)
ToISOString(m) == ToString(m)
DateOf(text) == CHOOSE m \in Minutes : ToISOString(m) = text

\* part_006:89  user.id.startsWith('temp_')
IsTemp(id) == Len(Segments[id]) > 1 /\ Segments[id][1] = "temp"

\* mutant: no safety margin
IsTokenExpiredNoMargin(tokenExpiresAt) ==
    IF tokenExpiresAt = NoExpiry THEN TRUE ELSE tokenExpiresAt < NowMinute

\* part_006:73-77  isTokenExpired
isTokenExpired(tokenExpiresAt) ==
    IF tokenExpiresAt = NoExpiry THEN TRUE
    ELSE tokenExpiresAt < NowMinute + ExpiryMargin

\* the user objects getValidAccessToken is called with: what authenticate
\* loaded from the store, or built for a provisional identity
UserObjects ==
    [id : TokenUsers, accessToken : {NoToken, AccessToken(0)},
     refreshToken : BOOLEAN, tokenExpiresAt : ExpirySamples]

\* part_006:131-135  the snapshot saved under 'tokens'
TokensSnapshot(accessToken, tokenExpiresAt) ==
    JsObj(<< <<"accessToken", JsStr(accessToken)>>,
             <<"refreshToken", JsStr("refresh")>>,
             <<"tokenExpiresAt", JsStr(ToISOString(tokenExpiresAt))>> >>)

\* no getValidAccessToken call has ended yet
NoTokenCall ==
    [userId |-> "none", kind |-> "none", token |-> NoToken, thrown |-> NoError,
     hadRefresh |-> FALSE,     \* currentUser.refreshToken was there
     expiry |-> NoExpiry,      \* currentUser.tokenExpiresAt
     tried |-> FALSE,          \* the refresh exchange was asked for
     exchanged |-> FALSE,      \* and answered
     newExpiry |-> NoExpiry]   \* refreshed.tokenExpiresAt

\* part_006:86-104  currentUser: for a provisional identity without tokens,
\* the tokens of the 'tokens' snapshot when it has both; a load that throws
\* is logged and the user object stays as it is
CurrentUser(user, files, cacheOk) ==
    IF IsTemp(user.id) /\ (user.accessToken = NoToken \/ ~user.refreshToken) /\ cacheOk
    THEN \* bound once: the snapshot as load returns it
         CHOOSE cu \in
           { IF /\ ~Falsy(cached)
                /\ ~Falsy(Member(cached, "accessToken"))
                /\ ~Falsy(Member(cached, "refreshToken"))
             THEN [user EXCEPT
                     !.accessToken = Member(cached, "accessToken").s,
                     !.refreshToken = TRUE,
                     !.tokenExpiresAt =
                         IF Falsy(Member(cached, "tokenExpiresAt")) THEN NoExpiry
                         ELSE DateOf(Member(cached, "tokenExpiresAt").s)]
             ELSE user
             : cached \in {LocalCacheLoad(files, user.id, "tokens")} } : TRUE
    ELSE user

\* how a call ends
TokenThrow(cu, e, tried) ==
    [NoTokenCall EXCEPT !.userId = cu.id, !.kind = "throw", !.thrown = e,
                        !.hadRefresh = cu.refreshToken, !.expiry = cu.tokenExpiresAt,
                        !.tried = tried]

TokenReturn(cu, token, exchanged, newExpiry) ==
    [NoTokenCall EXCEPT !.userId = cu.id, !.kind = "return", !.token = token,
                        !.hadRefresh = cu.refreshToken, !.expiry = cu.tokenExpiresAt,
                        !.tried = exchanged, !.exchanged = exchanged,
                        !.newExpiry = newExpiry]

\* part_006:84-148  getValidAccessToken(user), start to end. exchangeOk says
\* whether the auth endpoint answers the exchange, cacheOk whether the cache
\* directory can be read and written; the store takes the update when it is up
GetValidAccessToken(user, exchangeOk, cacheOk) ==
    \E cu \in {CurrentUser(user, cacheFiles, cacheOk)} :
       /\ IF ~cu.refreshToken
          THEN /\ auth' = [auth EXCEPT !.last = TokenThrow(cu, "E_NoRefreshToken", FALSE)]
               /\ UNCHANGED cacheFiles
          ELSE IF ~isTokenExpired(cu.tokenExpiresAt)
          THEN /\ auth' = [auth EXCEPT !.last = TokenReturn(cu, cu.accessToken, FALSE, NoExpiry)]
               /\ UNCHANGED cacheFiles
          ELSE IF ~exchangeOk
          THEN /\ auth' = [auth EXCEPT !.last = TokenThrow(cu, "E_Exchange", TRUE)]
               /\ UNCHANGED cacheFiles
          ELSE /\ auth.exchanges < MaxExchanges
               /\ LET token == AccessToken(auth.exchanges + 1)
                      tokenExpiresAt == NowMinute + ExpiresIn
                  IN /\ auth' =
                          [exchanges |-> auth.exchanges + 1,
                           persisted |-> auth.persisted,
                           current |-> auth.current,
                           users |-> IF ~IsTemp(cu.id) /\ dbUp
                                     THEN [auth.users EXCEPT ![cu.id] =
                                             [accessToken |-> token,
                                              tokenExpiresAt |-> tokenExpiresAt]]
                                     ELSE auth.users,
                           last |-> TokenReturn(cu, token, TRUE, tokenExpiresAt)]
                     /\ cacheFiles' =
                          IF IsTemp(cu.id) /\ cacheOk
                          THEN LocalCacheSave(cacheFiles, cu.id, "tokens",
                                              TokensSnapshot(token, tokenExpiresAt))
                          ELSE cacheFiles
       /\ UNCHANGED <<gateVars, syncVars, saved, cacheIO, response, retry, batchVars, raceVars>>

\* the store's identity records as the login left them
AuthIdle ==
    auth = [exchanges |-> 0,
            persisted |-> 0,          \* history: refreshed tokens written for the identity
            current |-> NoToken,      \* history: the token written last
            users |-> [u \in {x \in TokenUsers : ~IsTemp(x)} |->
                         [accessToken |-> AccessToken(0), tokenExpiresAt |-> NowMinute - 1]],
            last |-> NoTokenCall]

----------------------------------------------------------------------------
(* getValidAccessToken step by step. A service keeps the user object it was  *)
(* built with (spotifyService.js:10, part_003:335) and every upstream call   *)
(* passes that object (spotifyService.js:16-17); calls made through it give  *)
(* way at the refresh exchange and at the write of the new token.            *)

Flyers == {"f1", "f2"}

\* no call in flight
IdleFlight ==
    [pc |-> "idle", kind |-> "none", token |-> NoToken, thrown |-> NoError,
     exchanged |-> FALSE,      \* the call got a token from the auth endpoint
     overlapped |-> FALSE,     \* another call was waiting for its exchange at the start
     after |-> 0,              \* exchanges persisted for the identity before the call
     readable |-> TRUE,        \* the cache directory could be read at the start
     id |-> "none", newExpiry |-> NoExpiry]

\* mutant: a call does not ask for an exchange while another one is waiting for its own
NeedsRefreshSingleFlight(cu, others) ==
    isTokenExpired(cu.tokenExpiresAt) /\ ~\E g \in DOMAIN others : others[g].pc = "exchanging"

\* part_006:111  the check before the exchange looks at the object alone
NeedsRefresh(cu, others) == isTokenExpired(cu.tokenExpiresAt)

\* part_006:84-112  the call up to its first await on the auth endpoint
FlightStart(f, cacheOk) ==
    /\ flights[f].pc = "idle"
    /\ \E cu \in {CurrentUser(svcUser, cacheFiles, cacheOk)} :
         LET others == [g \in Flyers \ {f} |-> flights[g]]
             begun == [IdleFlight EXCEPT
                         !.id = cu.id,
                         !.after = auth.persisted,
                         !.readable = cacheOk,
                         !.overlapped = \E g \in Flyers \ {f} : flights[g].pc = "exchanging"]
         IN flights' = [flights EXCEPT ![f] =
              IF ~cu.refreshToken
              THEN [begun EXCEPT !.pc = "done", !.kind = "throw", !.thrown = "E_NoRefreshToken"]
              ELSE IF NeedsRefresh(cu, others)
              THEN [begun EXCEPT !.pc = "exchanging"]
              ELSE [begun EXCEPT !.pc = "done", !.kind = "return", !.token = cu.accessToken]]
    /\ UNCHANGED <<svcUser, auth, runs, owed>>
    /\ UNCHANGED <<gateVars, syncVars, cacheVars, response, retry, batchVars>>

\* part_006:112 and 43-67  the auth endpoint answers the exchange, or refuses it
FlightExchanged(f, exchangeOk) ==
    /\ flights[f].pc = "exchanging"
    /\ IF exchangeOk
       THEN /\ auth.exchanges < MaxExchanges
            /\ auth' = [auth EXCEPT !.exchanges = @ + 1]
            /\ flights' = [flights EXCEPT ![f] =
                 [@ EXCEPT !.pc = "persisting", !.exchanged = TRUE,
                           !.token = AccessToken(auth.exchanges + 1),
                           !.newExpiry = NowMinute + ExpiresIn]]
       ELSE /\ auth' = auth
            /\ flights' = [flights EXCEPT ![f] =
                 [@ EXCEPT !.pc = "done", !.kind = "throw", !.thrown = "E_Exchange"]]
    /\ UNCHANGED <<svcUser, runs, owed>>
    /\ UNCHANGED <<gateVars, syncVars, cacheVars, response, retry, batchVars>>

\* part_006:114-145  the new token is written to the store, or to the 'tokens'
\* snapshot of a provisional identity, and returned; the user object is left
\* as it was
FlightPersisted(f, cacheOk) ==
    /\ flights[f].pc = "persisting"
    /\ LET id == flights[f].id
           wrote == (~IsTemp(id) /\ dbUp) \/ (IsTemp(id) /\ cacheOk)
       IN /\ auth' = [auth EXCEPT
                        !.users = IF ~IsTemp(id) /\ dbUp
                                  THEN [@ EXCEPT ![id] =
                                          [accessToken |-> flights[f].token,
                                           tokenExpiresAt |-> flights[f].newExpiry]]
                                  ELSE @,
                        !.persisted = IF wrote THEN @ + 1 ELSE @,
                        !.current = IF wrote THEN flights[f].token ELSE @]
          /\ cacheFiles' =
               IF IsTemp(id) /\ cacheOk
               THEN LocalCacheSave(cacheFiles, id, "tokens",
                                   TokensSnapshot(flights[f].token, flights[f].newExpiry))
               ELSE cacheFiles
    /\ flights' = [flights EXCEPT ![f] = [@ EXCEPT !.pc = "done", !.kind = "return"]]
    /\ UNCHANGED <<svcUser, runs, owed>>
    /\ UNCHANGED <<gateVars, syncVars, saved, cacheIO, response, retry, batchVars>>

\* the upstream call that asked for the token goes on
FlightRetire(f) ==
    /\ flights[f].pc = "done"
    /\ flights' = [flights EXCEPT ![f] = IdleFlight]
    /\ UNCHANGED <<svcUser, auth, runs, owed>>
    /\ UNCHANGED <<gateVars, syncVars, cacheVars, response, retry, batchVars>>

\* no service has asked for a token yet
FlightsIdle ==
    /\ svcUser = [id |-> "u1", accessToken |-> AccessToken(0), refreshToken |-> TRUE,
                  tokenExpiresAt |-> NowMinute - 1]
    /\ flights = [f \in Flyers |-> IdleFlight]

----------------------------------------------------------------------------
(* Upstream client: SpotifyService.makeRequestWithRetry                     *)
(* (src/src/services/spotifyService.js, lines 39-79). Time is counted in    *)
(* milliseconds from the start of the call.                                 *)

\* spotifyService.js:39  maxRetries = 3, baseDelay = 1000
DefaultMaxRetries == 3
baseDelay == 1000

\* spotifyService.js:67  the wait before the retry of a 401
AuthRetryDelay == 500

\* spotifyService.js:29  timeout: 10000
RequestTimeout == 10000

\* an error without a response has no status
NoStatus == 0

(* What requestFn can reject with. retryAfter is the text of the retry-after *)
(* header, empty when the response has none; elapsed is the time the attempt *)
(* took at least.                                                            *)
RequestErrorTable ==
    [ R_429 |-> [status |-> 429, retryAfter |-> <<>>, elapsed |-> 0],
      R_429_After0 |-> [status |-> 429, retryAfter |-> <<"0">>, elapsed |-> 0],
      R_429_After2 |-> [status |-> 429, retryAfter |-> <<"2">>, elapsed |-> 0],
      R_429_Date |-> [status |-> 429, retryAfter |-> <<"W", "e", "d">>, elapsed |-> 0],
      R_401 |-> [status |-> 401, retryAfter |-> <<>>, elapsed |-> 0],
      R_500 |-> [status |-> 500, retryAfter |-> <<>>, elapsed |-> 0],
      R_Timeout |-> [status |-> NoStatus, retryAfter |-> <<>>, elapsed |-> RequestTimeout],
      R_Network |-> [status |-> NoStatus, retryAfter |-> <<>>, elapsed |-> 0] ]

RequestErrors == DOMAIN RequestErrorTable

DigitValue ==
    ("0" :> 0) @@ ("1" :> 1) @@ ("2" :> 2) @@ ("3" :> 3) @@ ("4" :> 4)
    @@ ("5" :> 5) @@ ("6" :> 6) @@ ("7" :> 7) @@ ("8" :> 8) @@ ("9" :> 9)

\* the number written by the leading digits of a text, read left to right
RECURSIVE LeadingDigits(_, _)
LeadingDigits(text, acc) ==
    IF text = <<>> \/ Head(text) \notin DOMAIN DigitValue THEN acc
    ELSE LeadingDigits(Tail(text), 10 * acc + DigitValue[Head(text)])

\* parseInt: NaN when the text does not start with a digit
ParseInt(text) ==
    IF text = <<>> \/ Head(text) \notin DOMAIN DigitValue
    THEN [nan |-> TRUE, n |-> 0]
    ELSE [nan |-> FALSE, n |-> LeadingDigits(text, 0)]

\* Math.pow(2, k)
RECURSIVE Pow2(_)
Pow2(k) == IF k = 0 THEN 1 ELSE 2 * Pow2(k - 1)

\* mutant: the header is not looked at
RetryDelayIgnoresHeader(e, attempt) == [nan |-> FALSE, n |-> baseDelay * Pow2(attempt)]

\* spotifyService.js:51-54  delay
RetryDelay(e, attempt) ==
    IF RequestErrorTable[e].retryAfter # <<>>
    THEN [nan |-> ParseInt(RequestErrorTable[e].retryAfter).nan,
          n |-> ParseInt(RequestErrorTable[e].retryAfter).n * 1000]
    ELSE [nan |-> FALSE, n |-> baseDelay * Pow2(attempt)]

\* setTimeout(resolve, delay): a delay that is NaN or below 1 counts as 1
TimerWait(delay) == IF delay.nan \/ delay.n < 1 THEN 1 ELSE delay.n

\* no makeRequestWithRetry call in progress
IdleRetry ==
    [pc |-> "idle",            \* idle, attempting, waiting, done
     maxRetries |-> 0,
     attempt |-> 0,            \* the loop variable
     invocations |-> 0,        \* calls of requestFn so far
     credential |-> NoToken,   \* the access token in the headers requestFn sends
     lastError |-> NoError,
     now |-> 0,
     failedAt |-> 0,           \* when the last attempt failed
     exchangesAtFail |-> 0,    \* refresh exchanges made up to then
     wakeAt |-> 0,             \* when the timer of the wait fires
     kind |-> "none",          \* how the call ended: "return" or "throw"
     thrown |-> NoError]

\* mutant: every failure is waited out and retried
CatchRequestErrorRetriesAll(call, e) ==
    [call EXCEPT !.lastError = e, !.failedAt = call.now, !.pc = "waiting",
                 !.wakeAt = call.now + AuthRetryDelay]

\* spotifyService.js:46-74  the catch block of one attempt
CatchRequestError(call, e) ==
    IF RequestErrorTable[e].status = 429
    THEN [call EXCEPT !.lastError = e, !.failedAt = call.now, !.pc = "waiting",
                      !.wakeAt = call.now + TimerWait(RetryDelay(e, call.attempt))]
    ELSE IF RequestErrorTable[e].status = 401 /\ call.attempt < call.maxRetries
    THEN [call EXCEPT !.lastError = e, !.failedAt = call.now, !.pc = "waiting",
                      !.wakeAt = call.now + AuthRetryDelay]
    ELSE [call EXCEPT !.lastError = e, !.failedAt = call.now, !.pc = "done",
                      !.kind = "throw", !.thrown = e]

\* mutant: the loop runs one round more
NextAttemptOneMore(call) ==
    IF call.attempt + 1 <= call.maxRetries + 1
    THEN [call EXCEPT !.attempt = @ + 1, !.now = call.wakeAt, !.pc = "attempting",
                      !.invocations = @ + 1]
    ELSE [call EXCEPT !.attempt = @ + 1, !.now = call.wakeAt, !.pc = "done",
                      !.kind = "throw", !.thrown = call.lastError]

\* spotifyService.js:42, 58, 68 and 78  continue: attempt++, the loop test, and
\* either the next requestFn() or throw lastError
NextAttempt(call) ==
    IF call.attempt + 1 <= call.maxRetries
    THEN [call EXCEPT !.attempt = @ + 1, !.now = call.wakeAt, !.pc = "attempting",
                      !.invocations = @ + 1]
    ELSE [call EXCEPT !.attempt = @ + 1, !.now = call.wakeAt, !.pc = "done",
                      !.kind = "throw", !.thrown = call.lastError]

\* spotifyService.js:98-111  an upstream call: the headers carry the token
\* getAuthHeaders was given, and makeRequestWithRetry starts its first attempt
RetryStart(maxRetries) ==
    /\ retry.pc = "idle"
    /\ auth.last.kind = "return"
    /\ retry' = [IdleRetry EXCEPT !.pc = "attempting", !.maxRetries = maxRetries,
                                  !.invocations = 1, !.credential = auth.last.token]
    /\ UNCHANGED <<gateVars, syncVars, cacheVars, response, auth, batchVars, raceVars>>

\* spotifyService.js:44-45  requestFn resolves
AttemptReturns ==
    /\ retry.pc = "attempting"
    /\ retry' = [retry EXCEPT !.pc = "done", !.kind = "return"]
    /\ UNCHANGED <<gateVars, syncVars, cacheVars, response, auth, batchVars, raceVars>>

\* spotifyService.js:46-74  requestFn rejects with e
AttemptFails(e) ==
    /\ retry.pc = "attempting"
    /\ retry' = CatchRequestError(
                    [retry EXCEPT !.now = @ + RequestErrorTable[e].elapsed,
                                  !.exchangesAtFail = auth.exchanges], e)
    /\ UNCHANGED <<gateVars, syncVars, cacheVars, response, auth, batchVars, raceVars>>

\* spotifyService.js:57 and 67  the timer of the wait fires
TimerFires ==
    /\ retry.pc = "waiting"
    /\ retry' = NextAttempt(retry)
    /\ UNCHANGED <<gateVars, syncVars, cacheVars, response, auth, batchVars, raceVars>>

\* the caller has its answer; the next upstream call can start
RetryRetire ==
    /\ retry.pc = "done"
    /\ retry' = IdleRetry
    /\ UNCHANGED <<gateVars, syncVars, cacheVars, response, auth, batchVars, raceVars>>

\* no token asked for, no upstream call made
UpstreamIdle == AuthIdle /\ retry = IdleRetry

----------------------------------------------------------------------------
(* Batch job: syncAllUsersData (src/src/index.js, lines 94-136), started by  *)
(* the daily schedule. The syncUserPlayback of one identity is one awaited   *)
(* call here: it returns or it throws after some time.                       *)

\* most identities the identity query returns
MaxBatch == 3

\* index.js:126  setTimeout(resolve, 2000)
InterIdentityDelay == 2000

\* how long a syncUserPlayback can take, in ms
SyncDurations == {1, 30000}

\* the identities with a refresh token
BatchIds == {"u" \o ToString(i) : i \in 1..MaxBatch}

\* index.js:104-108  what prisma.user.findMany can return: every row once
BatchQueries ==
    {list \in UNION {[1..n -> BatchIds] : n \in 0..MaxBatch} :
        \A i, j \in 1..Len(list) : i # j => list[i] # list[j]}

\* no run in progress
IdleBatch ==
    [pc |-> "idle", users |-> <<>>, next |-> 0, log |-> <<>>, now |-> 0,
     startedAt |-> 0, wakeAt |-> 0, ended |-> "none"]

\* index.js:111-112  the for-of loop takes the next identity and calls its
\* syncUserPlayback, or is over (index.js:133)
LoopNext(b) ==
    IF b.next < Len(b.users)
    THEN [b EXCEPT !.pc = "sync", !.next = @ + 1, !.startedAt = b.now]
    ELSE [b EXCEPT !.pc = "done", !.ended = "completed"]

\* the entry of the log for the sync that ends now
Attempt(b, ok, endedAt) ==
    [userId |-> b.users[b.next], ok |-> ok, startedAt |-> b.startedAt, endedAt |-> endedAt]

\* mutant: the error of one identity ends the run
CatchSyncErrorAborts(b) == [b EXCEPT !.pc = "done", !.ended = "aborted"]

\* index.js:127-130  catch: the error is logged, the loop goes on
CatchSyncError(b) == LoopNext(b)

\* index.js:94-103  the schedule fires; without a store client the job returns
BatchStart(hasPrisma) ==
    /\ batch.pc = "idle"
    /\ batch' = IF hasPrisma THEN [batch EXCEPT !.pc = "query"]
                ELSE [batch EXCEPT !.pc = "done", !.ended = "skipped"]
    /\ UNCHANGED <<gateVars, syncVars, cacheVars, response, upstreamVars, raceVars>>

\* index.js:104-111  the identity query returns
BatchQueryReturns(users) ==
    /\ batch.pc = "query"
    /\ batch' = LoopNext([batch EXCEPT !.users = users])
    /\ UNCHANGED <<gateVars, syncVars, cacheVars, response, upstreamVars, raceVars>>

\* index.js:134-136  the identity query is rejected: the outer catch logs it
BatchQueryFails ==
    /\ batch.pc = "query"
    /\ batch' = [batch EXCEPT !.pc = "done", !.ended = "queryFailed"]
    /\ UNCHANGED <<gateVars, syncVars, cacheVars, response, upstreamVars, raceVars>>

\* index.js:116-126  syncUserPlayback returns after d ms: the result is logged
\* and the delay timer is set
BatchSyncReturns(d) ==
    /\ batch.pc = "sync"
    /\ batch' = [batch EXCEPT !.pc = "delay", !.now = @ + d,
                              !.log = Append(@, Attempt(batch, TRUE, batch.now + d)),
                              !.wakeAt = batch.now + d + InterIdentityDelay]
    /\ UNCHANGED <<gateVars, syncVars, cacheVars, response, upstreamVars, raceVars>>

\* index.js:116, 127-130  syncUserPlayback throws after d ms
BatchSyncThrows(d) ==
    /\ batch.pc = "sync"
    /\ batch' = CatchSyncError([batch EXCEPT !.now = @ + d,
                                   !.log = Append(@, Attempt(batch, FALSE, batch.now + d))])
    /\ UNCHANGED <<gateVars, syncVars, cacheVars, response, upstreamVars, raceVars>>

\* index.js:126  the delay timer fires
BatchTimerFires ==
    /\ batch.pc = "delay"
    /\ batch' = LoopNext([batch EXCEPT !.now = batch.wakeAt])
    /\ UNCHANGED <<gateVars, syncVars, cacheVars, response, upstreamVars, raceVars>>

\* the run is over; the schedule can fire again
BatchRetire ==
    /\ batch.pc = "done"
    /\ batch' = IdleBatch
    /\ UNCHANGED <<gateVars, syncVars, cacheVars, response, upstreamVars, raceVars>>

BatchIdle == batch = IdleBatch

----------------------------------------------------------------------------
(* Interleaved executions of syncRecentlyPlayed (src/unnamed/part_003, lines  *)
(* 341-395). GET /recent and POST /sync start an execution per request, so    *)
(* two of them can be in flight for one identity; each one gives way at its   *)
(* awaits: the watermark query, the upstream call, and the findFirst and the  *)
(* create of every fetched play.                                              *)

Runners == {"r1", "r2"}

\* no execution in flight
IdleRun ==
    [pc |-> "idle", userId |-> "none", after |-> NoTime, rest |-> <<>>,
     synced |-> 0, total |-> 0, kind |-> "none", error |-> "none", owes |-> {}]

\* a stored row of the play
PlayStored(store, u, e) == FindFirstByKey(store, u, e.trackId, e.playedAt)

\* a response that lists every play after the cursor, in any order
FullResponses(u, after) ==
    {resp \in RecentResponses(u, after) :
        \A e \in UpstreamPlays(u) :
            (after = NoTime \/ e.playedAt > after) => \E i \in 1..Len(resp) : resp[i] = e}

\* part_003:387-390  the loop is over: {synced, total} is returned
RunReturns(run) == [run EXCEPT !.pc = "done", !.kind = "return", !.rest = <<>>]

\* part_003:391-394  the catch logs the error and rethrows it
RunThrows(run, e) == [run EXCEPT !.pc = "done", !.kind = "throw", !.error = e]

\* mutant: a rejected create is taken for a row that is already there
CatchCreateErrorSkips(run, e) ==
    IF e = "P2002"
    THEN IF Tail(run.rest) = <<>> THEN RunReturns(run)
         ELSE [run EXCEPT !.rest = Tail(@), !.pc = "checking"]
    ELSE RunThrows(run, e)

\* part_003:370-383 and 391-394  the create is not guarded: its rejection leaves
\* the loop and reaches the catch of the whole function
CatchCreateError(run, e) == RunThrows(run, e)

\* part_003:360  the for-of loop takes the next play, or ends
LoopOn(run) ==
    IF run.rest = <<>> THEN RunReturns(run) ELSE [run EXCEPT !.pc = "checking"]

\* what a failed execution leaves behind: the plays it had fetched and had not
\* come to, once it had inserted at least one
OwedAfter(run) ==
    IF run.synced > 0
    THEN owed \cup {[userId |-> run.userId, event |-> run.rest[i]] : i \in 1..Len(run.rest)}
    ELSE owed

\* part_003:341-347  syncRecentlyPlayed is called and awaits the watermark query
RunStart(r, u) ==
    /\ runs[r].pc = "idle"
    /\ runs' = [runs EXCEPT ![r] = [IdleRun EXCEPT !.pc = "watermark", !.userId = u,
                                                   !.owes = {o \in owed : o.userId = u}]]
    /\ UNCHANGED <<owed, syncVars>>
    /\ UNCHANGED notRace

\* part_003:344-352  the watermark query resolves and getRecentlyPlayed(50, after)
\* is called
RunWatermark(r) ==
    /\ runs[r].pc = "watermark"
    /\ runs' = [runs EXCEPT ![r] =
                  [@ EXCEPT !.pc = "fetching", !.after = LastPlayedAt(trackStat, runs[r].userId)]]
    /\ UNCHANGED <<owed, syncVars>>
    /\ UNCHANGED notRace

\* part_003:351-356  the upstream answers resp
RunFetched(r, resp) ==
    /\ runs[r].pc = "fetching"
    /\ resp \in FullResponses(runs[r].userId, runs[r].after)
    /\ runs' = [runs EXCEPT ![r] = LoopOn([@ EXCEPT !.rest = resp, !.total = Len(resp)])]
    /\ UNCHANGED <<owed, syncVars>>
    /\ UNCHANGED notRace

\* part_003:361-368  the findFirst on the composite key resolves
RunCheck(r) ==
    /\ runs[r].pc = "checking"
    /\ LET run == runs[r]
           e == Head(run.rest)
       IN runs' = [runs EXCEPT ![r] =
                     IF PlayStored(trackStat, run.userId, e)
                     THEN LoopOn([run EXCEPT !.rest = Tail(@)])
                     ELSE [run EXCEPT !.pc = "creating"]]
    /\ UNCHANGED <<owed, syncVars>>
    /\ UNCHANGED notRace

\* part_003:370-383  the create settles: the row is written, or the unique index
\* rejects it with P2002
RunCreate(r) ==
    /\ runs[r].pc = "creating"
    /\ LET run == runs[r]
           c == TrackStatCreate(trackStat, RecentRow(run.userId, Head(run.rest)))
       IN IF c.ok
          THEN /\ trackStat' = c.store
               /\ runs' = [runs EXCEPT ![r] =
                             LoopOn([run EXCEPT !.rest = Tail(@), !.synced = @ + 1])]
               /\ owed' = owed
          ELSE /\ trackStat' = trackStat
               /\ runs' = [runs EXCEPT ![r] = CatchCreateError(run, "P2002")]
               /\ owed' = OwedAfter(run)
    /\ UNCHANGED <<artistStat, musicProfile, upPlays, job, syncResult>>
    /\ UNCHANGED notRace

\* a store call or the upstream call of the execution is rejected (the
\* connection drops, the 25 s timeout wins the race): the catch rethrows
RunFails(r, e) ==
    /\ runs[r].pc \in {"watermark", "fetching", "checking", "creating"}
    /\ runs' = [runs EXCEPT ![r] = RunThrows(@, e)]
    /\ owed' = OwedAfter(runs[r])
    /\ UNCHANGED syncVars
    /\ UNCHANGED notRace

\* the request of the execution is answered
RunRetire(r) ==
    /\ runs[r].pc = "done"
    /\ runs' = [runs EXCEPT ![r] = IdleRun]
    /\ UNCHANGED <<owed, syncVars>>
    /\ UNCHANGED notRace

RunsIdle == runs = [r \in Runners |-> IdleRun] /\ owed = {}

RaceIdle == RunsIdle /\ FlightsIdle

----------------------------------------------------------------------------
(* Specifications *)

\* nothing synced yet
SyncIdle ==
    /\ trackStat = <<>>
    /\ artistStat = [u \in Users |-> [a \in Artists |-> NoArtist]]
    /\ musicProfile = [u \in Users |-> NoProfile]
    /\ upPlays = [u \in Users |-> <<>>]
    /\ job = IdleJob
    /\ syncResult = NoResult

\* the gate with no sync in progress
InitGate == GateInit /\ SyncIdle /\ CacheIdle /\ UpstreamIdle /\ BatchIdle /\ RaceIdle /\ response = NoResponse

NextGate ==
    \/ \E c \in Callers, fb \in BOOLEAN : WcfStart(c, fb)
    \/ \E c \in Callers : CheckStart(c)
    \/ \E c \in Callers : ForceCache(c)
    \/ \E c \in Callers : QueryLands(c)
    \/ \E c \in Callers : ProbeReturn(c)
    \/ \E c \in Callers : PrimaryReturn(c)
    \/ \E c \in Callers, e \in PrimaryErrors : PrimaryThrow(c, e)
    \/ \E c \in Callers : SecondaryReturn(c)
    \/ \E c \in Callers : SecondaryThrow(c)
    \/ \E c \in Callers : Retire(c)
    \/ StoreGoesDown
    \/ StoreComesUp

SpecGate == InitGate /\ [][NextGate]_vars

\* every awaited call of a request settles, a finished request is retired, and
\* reads keep arriving: whenever a caller is free again and again, a read comes
FairGate ==
    /\ SpecGate
    /\ \A c \in Callers :
          WF_vars(\/ QueryLands(c) \/ ProbeReturn(c)
                  \/ PrimaryReturn(c) \/ (\E e \in PrimaryErrors : PrimaryThrow(c, e))
                  \/ SecondaryReturn(c) \/ SecondaryThrow(c)
                  \/ Retire(c))
    /\ SF_vars(\E c \in Callers : WcfStart(c, TRUE))

\* the identity whose calls are followed, and what its upstream can list
Syncing == {"u1"}

\* the table already holds a play of another identity: the same track at the
\* instant of the followed identity's first play
OtherPlays ==
    /\ trackStat = [r \in {RecentRow("u2", PlayEvent("t1", topTracksTimestamp + 1))} |-> 1]
    /\ artistStat = [u \in Users |-> [a \in Artists |-> NoArtist]]
    /\ musicProfile = [u \in Users |-> NoProfile]
    /\ upPlays = [u \in Users |-> IF u = "u2" THEN <<"t1">> ELSE <<>>]
    /\ job = IdleJob
    /\ syncResult = NoResult

\* the sync engine with the store up and no request in flight
InitSync ==
    GateInit /\ dbUp /\ OtherPlays /\ CacheIdle /\ UpstreamIdle /\ BatchIdle /\ RaceIdle /\ response = NoResponse

\* the PlayEvent table under calls of syncRecentlyPlayed and syncTopTracks;
\* the audio features endpoint does not answer
NextSync ==
    \/ \E u \in Syncing, t \in Tracks : Listen(u, t)
    \/ \E u \in Syncing : \E resp \in RecentResponses(u, LastPlayedAt(trackStat, u)) :
          SyncRecentlyPlayed(u, resp)
    \/ \E u \in Syncing, tops \in ListsOver(Tracks) : SyncTopTracks(u, tops, FALSE)
    \/ \E u \in Syncing, op \in {"recent", "tracks"} : SyncFails(u, op)

SpecSync == InitSync /\ [][NextSync]_vars

\* what the upstream can list in the runs of syncUserPlayback
PbTracks == {"t1"}
PbArtists == {"a1"}

\* the followed identity has played up to MaxPlayTime tracks, another identity
\* holds a stored play, and no request is in flight
InitRace ==
    /\ GateInit /\ dbUp /\ CacheIdle /\ UpstreamIdle /\ BatchIdle /\ RaceIdle
    /\ response = NoResponse
    /\ trackStat = [r \in {RecentRow("u2", PlayEvent("t1", topTracksTimestamp + 1))} |-> 1]
    /\ artistStat = [u \in Users |-> [a \in Artists |-> NoArtist]]
    /\ musicProfile = [u \in Users |-> NoProfile]
    /\ \E n \in 0..MaxPlayTime :
          upPlays = [u \in Users |-> IF u = "u2" THEN <<"t1">> ELSE [i \in 1..n |-> "t1"]]
    /\ job = IdleJob
    /\ syncResult = NoResult

\* two requests run syncRecentlyPlayed for the followed identity and interleave
\* at their awaits; a store call inside the loop can be rejected
NextRace ==
    \/ \E r \in Runners, u \in Syncing : RunStart(r, u)
    \/ \E r \in Runners : RunWatermark(r)
    \/ \E r \in Runners :
          /\ runs[r].pc = "fetching"
          /\ \E resp \in FullResponses(runs[r].userId, runs[r].after) : RunFetched(r, resp)
    \/ \E r \in Runners : RunCheck(r)
    \/ \E r \in Runners : RunCreate(r)
    \/ \E r \in Runners : runs[r].pc \in {"checking", "creating"} /\ RunFails(r, "P1001")
    \/ \E r \in Runners : RunRetire(r)

SpecRace == InitRace /\ [][NextRace]_vars

\* one request at a time runs syncRecentlyPlayed while the identity goes on
\* playing and syncTopTracks stores its 2000-01-01 rows
NextWatermark ==
    \/ \E u \in Syncing, t \in PbTracks : Listen(u, t)
    \/ \E u \in Syncing : RunStart("r1", u)
    \/ RunWatermark("r1")
    \/ /\ runs["r1"].pc = "fetching"
       /\ \E resp \in FullResponses(runs["r1"].userId, runs["r1"].after) : RunFetched("r1", resp)
    \/ RunCheck("r1")
    \/ RunCreate("r1")
    \/ RunFails("r1", "P1001")
    \/ RunRetire("r1")
    \/ \E u \in Syncing, t \in Tracks : SyncTopTracks(u, <<t>>, FALSE)

SpecWatermark == InitSync /\ [][NextWatermark]_vars


\* every sync call, alone and as a step of syncUserPlayback; the audio
\* features endpoint does not answer
NextPlayback ==
    \/ \E u \in Syncing, t \in PbTracks : Listen(u, t)
    \/ \E u \in Syncing : StartPlayback(u)
    \/ \E u \in Syncing : \E resp \in RecentResponses(u, LastPlayedAt(trackStat, u)) :
          SyncRecentlyPlayed(u, resp)
    \/ \E u \in Syncing, tops \in ListsOver(PbTracks) : SyncTopTracks(u, tops, FALSE)
    \/ \E u \in Syncing, arts \in ListsOver(PbArtists) : SyncTopArtists(u, arts)
    \/ \E u \in Syncing : BuildProfile(u)
    \/ \E u \in Syncing, op \in SyncOps : SyncFails(u, op)

SpecPlayback == InitSync /\ [][NextPlayback]_vars

\* spotifyService.js:189-195  the genres an upstream artist can carry when
\* it is saved: artist.genres || [] is empty for an artist without genres
GenreLists == {<<>>, <<"pop">>, <<"rock">>, <<"pop", "rock">>}

\* part_003:414-437  the ArtistStat rows syncTopArtists can have written
ArtistRows ==
    {NoArtist} \cup [present : {TRUE}, playCount : 1..MaxPlayCount, genres : GenreLists]

\* the followed identity has aggregates from earlier syncs, and no profile yet
InitGenres ==
    /\ GateInit /\ dbUp /\ CacheIdle /\ UpstreamIdle /\ BatchIdle /\ RaceIdle /\ response = NoResponse
    /\ trackStat = <<>>
    /\ \E rows \in [Artists -> ArtistRows] :
          artistStat = [u \in Users |-> IF u \in Syncing THEN rows
                                        ELSE [a \in Artists |-> NoArtist]]
    /\ musicProfile = [u \in Users |-> NoProfile]
    /\ upPlays = [u \in Users |-> <<>>]
    /\ job = IdleJob
    /\ syncResult = NoResult

\* buildMusicProfile over those aggregates, between syncs of the top artists
NextGenres ==
    \/ \E u \in Syncing : BuildProfile(u)
    \/ \E u \in Syncing, arts \in ListsOver(Artists) : SyncTopArtists(u, arts)

SpecGenres == InitGenres /\ [][NextGenres]_vars

\* the number of aggregates the earlier syncs left to the followed identity
TailCounts == {TopN - 2, TopN - 1, TopN}

\* the followed identity has aggregates of up to TopN artists of earlier syncs,
\* each a pop artist counted twice, and any aggregates of the two listed ones
InitArtists ==
    /\ GateInit /\ dbUp /\ CacheIdle /\ UpstreamIdle /\ BatchIdle /\ RaceIdle /\ response = NoResponse
    /\ trackStat = <<>>
    /\ \E n \in TailCounts, rows \in [Artists -> ArtistRows] :
          artistStat =
            [u \in Users |->
               IF u \in Syncing
               THEN rows @@ [b \in {ArtistTail[i] : i \in 1..n} |->
                               [present |-> TRUE, playCount |-> 2, genres |-> <<"pop">>]]
               ELSE [a \in Artists |-> NoArtist]]
    /\ musicProfile = [u \in Users |-> NoProfile]
    /\ upPlays = [u \in Users |-> <<>>]
    /\ job = IdleJob
    /\ syncResult = NoResult

\* buildMusicProfile over those aggregates, between syncs of the top artists
NextArtists ==
    \/ \E u \in Syncing : BuildProfile(u)
    \/ \E u \in Syncing, a \in Artists : SyncTopArtists(u, <<a>>)

SpecArtists == InitArtists /\ [][NextArtists]_vars

\* the PlayEvent table under both track syncs with the audio features endpoint
\* answering or not, and buildMusicProfile over it
NextFeatures ==
    \/ \E u \in Syncing, t \in Tracks : Listen(u, t)
    \/ \E u \in Syncing : \E resp \in RecentResponses(u, LastPlayedAt(trackStat, u)) :
          SyncRecentlyPlayed(u, resp)
    \/ \E u \in Syncing, tops \in ListsOver(Tracks), feats \in BOOLEAN :
          SyncTopTracks(u, tops, feats)
    \/ \E u \in Syncing : BuildProfile(u)

SpecFeatures == InitSync /\ [][NextFeatures]_vars

\* how many tracks of the catalogue earlier syncTopTracks calls have stored
StoredCounts == {0, TopN, TopN + 1, TopN + 2}

\* tracks that earlier syncRecentlyPlayed calls may have stored plays of
Replayed == {"t1", "k21", "k22"}

\* the followed identity has rows of earlier syncs: a sentinel row for each of
\* the first n tracks of the catalogue and up to MaxPlayTime plays of some
InitTopTracks ==
    /\ GateInit /\ dbUp /\ CacheIdle /\ UpstreamIdle /\ BatchIdle /\ RaceIdle /\ response = NoResponse
    /\ \E n \in StoredCounts, plays \in [Replayed -> 0..MaxPlayTime] :
          trackStat =
              [r \in {TopRow("u1", TrackOrder[i]) : i \in 1..n}
                     \cup UNION {{RecentRow("u1", PlayEvent(t, topTracksTimestamp + i)) :
                                    i \in 1..plays[t]} : t \in Replayed}
               |-> 1]
    /\ artistStat = [u \in Users |-> [a \in Artists |-> NoArtist]]
    /\ musicProfile = [u \in Users |-> NoProfile]
    /\ upPlays = [u \in Users |-> <<>>]
    /\ job = IdleJob
    /\ syncResult = NoResult

\* buildMusicProfile over those rows, between syncs of the top tracks
NextTopTracks ==
    \/ \E u \in Syncing : BuildProfile(u)
    \/ \E u \in Syncing, t \in Tracks : SyncTopTracks(u, <<t>>, FALSE)

SpecTopTracks == InitTopTracks /\ [][NextTopTracks]_vars

\* the batch job on its own
InitBatch ==
    GateInit /\ dbUp /\ SyncIdle /\ CacheIdle /\ UpstreamIdle /\ BatchIdle /\ RaceIdle
    /\ response = NoResponse

NextBatch ==
    \/ \E hasPrisma \in BOOLEAN : BatchStart(hasPrisma)
    \/ \E users \in BatchQueries : BatchQueryReturns(users)
    \/ BatchQueryFails
    \/ \E d \in SyncDurations : BatchSyncReturns(d)
    \/ \E d \in SyncDurations : BatchSyncThrows(d)
    \/ BatchTimerFires
    \/ BatchRetire

SpecBatch == InitBatch /\ [][NextBatch]_vars

\* every awaited call of the job settles and the timer fires
FairBatch ==
    /\ SpecBatch
    /\ WF_vars(BatchQueryFails \/ \E users \in BatchQueries : BatchQueryReturns(users))
    /\ WF_vars(\E d \in SyncDurations : BatchSyncReturns(d) \/ BatchSyncThrows(d))
    /\ WF_vars(BatchTimerFires)

\* what the upstream can report a track as: unchanged, or t1 under a new title
NameMaps == {TrackNames, [TrackNames EXCEPT !["t1"] = "Alpha (Remastered)"]}

\* the PlayEvent table under both track syncs while the upstream's metadata
\* of a track changes between calls
NextRenames ==
    \/ \E u \in Syncing, t \in Tracks : Listen(u, t)
    \/ \E u \in Syncing : \E resp \in RecentResponses(u, LastPlayedAt(trackStat, u)) :
          SyncRecentlyPlayed(u, resp)
    \/ \E u \in Syncing, tops \in ListsOver(PbTracks), feats \in BOOLEAN, names \in NameMaps :
          SyncTopTracksAs(u, tops, feats, names)
    \/ \E u \in Syncing, op \in {"recent", "tracks"} : SyncFails(u, op)

SpecRenames == InitSync /\ [][NextRenames]_vars

\* the cache on its own: saves, loads and deletes in any order
InitCache ==
    GateInit /\ dbUp /\ SyncIdle /\ CacheIdle /\ UpstreamIdle /\ BatchIdle /\ RaceIdle /\ response = NoResponse

NextCache ==
    \/ \E i \in CacheIds, l \in CacheLabels, x \in JsonSamples \cup OtherSamples :
          CacheSave(i, l, x)
    \/ \E i \in CacheIds, l \in CacheLabels : CacheLoad(i, l)
    \/ \E i \in CacheIds, l \in CacheLabels : CacheDelete(i, l)

SpecCache == InitCache /\ [][NextCache]_vars

\* snapshots are saved and deleted under colliding ids and labels, and the
\* snapshots of an identity are listed
NextCacheList ==
    \/ \E i \in CacheIds, l \in CacheLabels, x \in {JsNull, JsStr("x")} : CacheSave(i, l, x)
    \/ \E i \in CacheIds, l \in CacheLabels : CacheDelete(i, l)
    \/ \E i \in CacheIds : CacheList(i)

SpecCacheList == InitCache /\ [][NextCacheList]_vars

\* profile reads of one identity while the store comes and goes and the
\* identity keeps listening
InitProfile == GateInit /\ SyncIdle /\ CacheIdle /\ UpstreamIdle /\ BatchIdle /\ RaceIdle /\ response = NoResponse

NextProfile ==
    \/ \E u \in Syncing : \E e \in SyncEnds(u) :
          \E plays \in PlaysFetched(u, e), tops \in ListsFetched(u, e, PbTracks),
             arts \in ListsFetched(u, e, PbArtists) : GetProfile(u, e, plays, tops, arts)
    \/ \E u \in Syncing, t \in PbTracks : Listen(u, t)
    \/ StoreGoesDown
    \/ StoreComesUp

SpecProfile == InitProfile /\ [][NextProfile]_vars

\* the token provider on its own, with the store coming and going
InitTokens ==
    GateInit /\ SyncIdle /\ CacheIdle /\ UpstreamIdle /\ BatchIdle /\ RaceIdle /\ response = NoResponse

NextTokens ==
    \/ \E user \in UserObjects, exchangeOk, cacheOk \in BOOLEAN :
          GetValidAccessToken(user, exchangeOk, cacheOk)
    \/ StoreGoesDown
    \/ StoreComesUp

SpecTokens == InitTokens /\ [][NextTokens]_vars

\* a service is built with any user object and its upstream calls ask for the
\* token, two at a time at most
InitFlights ==
    /\ GateInit /\ SyncIdle /\ CacheIdle /\ UpstreamIdle /\ BatchIdle /\ RunsIdle
    /\ response = NoResponse
    /\ svcUser \in UserObjects
    /\ flights = [f \in Flyers |-> IdleFlight]

NextFlights ==
    \/ \E f \in Flyers, cacheOk \in BOOLEAN : FlightStart(f, cacheOk)
    \/ \E f \in Flyers, exchangeOk \in BOOLEAN : FlightExchanged(f, exchangeOk)
    \/ \E f \in Flyers, cacheOk \in BOOLEAN : FlightPersisted(f, cacheOk)
    \/ \E f \in Flyers : FlightRetire(f)
    \/ StoreGoesDown
    \/ StoreComesUp

SpecFlights == InitFlights /\ [][NextFlights]_vars

\* the user object of the upstream calls that are followed
RetryUsers ==
    {user \in UserObjects :
        /\ user.id = "u1" /\ user.refreshToken /\ user.accessToken # NoToken
        /\ user.tokenExpiresAt \in {NowMinute - 1, NowMinute + 10}}

\* upstream calls one after the other: getAuthHeaders, then
\* makeRequestWithRetry with attempts that fail in every way
InitRetry ==
    GateInit /\ dbUp /\ SyncIdle /\ CacheIdle /\ UpstreamIdle /\ BatchIdle /\ RaceIdle /\ response = NoResponse

NextRetry ==
    \/ \E user \in RetryUsers :
          retry.pc = "idle" /\ GetValidAccessToken(user, TRUE, TRUE)
    \/ \E m \in 0..DefaultMaxRetries : RetryStart(m)
    \/ AttemptReturns
    \/ \E e \in RequestErrors : AttemptFails(e)
    \/ TimerFires
    \/ RetryRetire

SpecRetry == InitRetry /\ [][NextRetry]_vars

\* every step of a call in progress is taken in the end: requestFn settles
\* (the request times out at the latest) and timers fire
FairRetry ==
    SpecRetry /\ WF_vars(AttemptReturns \/ \E e \in RequestErrors : AttemptFails(e))
              /\ WF_vars(TimerFires)

----------------------------------------------------------------------------
(* Claims on the gate and the orchestrator, checked under SpecGate *)

\* the step in which the dbOperation of caller c rejects
PrimaryThrows(c) == calls[c].pc = "primary" /\ calls'[c].dbError # NoError

\* the step in which caller c enters checkDatabase
EntersCheck(c) == calls[c].pc = "idle" /\ calls'[c].pc # "idle"

(* C1: when the gate reported the store available, the primary raises a     *)
(* connectivity-class error and fallback is allowed, the catch block         *)
(* invalidates the gate, starts the secondary (once) without surfacing the   *)
(* primary's error, and what the secondary yields is what the call yields.   *)
C1_FallbackOnConnectivity ==
    [][\A c \in Callers :
        /\ ( /\ PrimaryThrows(c)
             /\ calls[c].isDbAvailable = "true"
             /\ IsConnectivityError(calls'[c].dbError)
             /\ calls[c].fallbackToCache )
           => /\ dbAvailable' = NULL
              /\ calls'[c].pc = "secondary"
              /\ calls'[c].secondaryRuns = 1
              /\ calls'[c].kind = "none"
        /\ ( /\ calls[c].pc = "secondary"
             /\ calls[c].dbError # NoError
             /\ calls'[c].pc = "done" )
           => /\ calls'[c].secondaryRuns = 1
              /\ calls'[c].primaryRuns = 1
              /\ \/ calls'[c].kind = "return" /\ calls'[c].ret = "cache"
                 \/ calls'[c].kind = "throw" /\ calls'[c].thrown = "E_Cache"
      ]_vars

\* a call whose primary failed with a connectivity-class error returned the
\* secondary's result
C1_Witness ==
    \E c \in Callers :
        /\ calls[c].op = "wcf" /\ calls[c].pc = "done"
        /\ calls[c].dbError \in {"E_P1001", "E_ConnClosed"}
        /\ calls[c].kind = "return" /\ calls[c].ret = "cache"
        /\ calls[c].secondaryRuns = 1

(* C2: an error of the primary that is not a store-connectivity failure      *)
(* (such as not-found or an upstream API failure) is rethrown as it          *)
(* is; the secondary does not run and the gate memo is left alone.           *)
C2_NonConnectivityPropagates ==
    [][\A c \in Callers :
        ( /\ PrimaryThrows(c)
          /\ ErrorTable[calls'[c].dbError].origin # "store" )
        => /\ calls'[c].pc = "done"
           /\ calls'[c].kind = "throw"
           /\ calls'[c].thrown = calls'[c].dbError
           /\ calls'[c].secondaryRuns = 0
           /\ dbAvailable' = dbAvailable
      ]_vars

(* C3 as stated: once a probe has memoized the store as unavailable, every   *)
(* withCacheFallback call that starts before the gate is invalidated runs    *)
(* the secondary directly and never invokes the primary.                     *)
C3_AsStated ==
    [][\A c \in Callers :
        (unavailSeen /\ EntersCheck(c) /\ calls'[c].op = "wcf")
        => /\ calls'[c].pc = "secondary"
           /\ calls'[c].secondaryRuns = 1
           /\ calls'[c].primaryRuns = 0
      ]_vars

\* C3 as stated, for calls that allow the fallback only
C3_AsStatedWithFallback ==
    [][\A c \in Callers :
        (unavailSeen /\ EntersCheck(c) /\ calls'[c].op = "wcf"
           /\ calls'[c].fallbackToCache)
        => /\ calls'[c].pc = "secondary"
           /\ calls'[c].primaryRuns = 0
      ]_vars

(* C3 amended: a withCacheFallback call that starts while the memo holds     *)
(* "unavailable" never invokes the primary; it runs the secondary directly   *)
(* when fallback is allowed and fails with the 'Database unavailable and     *)
(* cache fallback disabled' error when it is not.                            *)
C3_SkipsPrimaryWhileUnavailable ==
    /\ [][\A c \in Callers :
            (dbAvailable = "false" /\ EntersCheck(c) /\ calls'[c].op = "wcf")
            => /\ calls'[c].primaryRuns = 0
               /\ IF calls'[c].fallbackToCache
                  THEN calls'[c].pc = "secondary" /\ calls'[c].secondaryRuns = 1
                  ELSE /\ calls'[c].pc = "done" /\ calls'[c].kind = "throw"
                       /\ calls'[c].thrown = "E_Disabled"
                       /\ calls'[c].secondaryRuns = 0
         ]_vars
    /\ [](\A c \in Callers :
            (calls[c].op = "wcf" /\ calls[c].isDbAvailable = "false")
            => calls[c].primaryRuns = 0)

\* a call answered from the cache without the primary having run
C3_Witness ==
    \E c \in Callers :
        /\ calls[c].op = "wcf" /\ calls[c].pc = "done"
        /\ calls[c].isDbAvailable = "false"
        /\ calls[c].kind = "return" /\ calls[c].ret = "cache"
        /\ calls[c].primaryRuns = 0

(* C4: when the primary raises a connectivity-class error and fallback is    *)
(* not allowed, the catch block invalidates the gate, does not run the       *)
(* secondary and rethrows the primary's own error.                           *)
C4_RethrowWithoutFallback ==
    [][\A c \in Callers :
        ( /\ PrimaryThrows(c)
          /\ IsConnectivityError(calls'[c].dbError)
          /\ ~calls[c].fallbackToCache )
        => /\ dbAvailable' = NULL
           /\ calls'[c].pc = "done"
           /\ calls'[c].kind = "throw"
           /\ calls'[c].thrown = calls'[c].dbError
           /\ calls'[c].secondaryRuns = 0
      ]_vars

\* a call without fallback that ended with the primary's connectivity error
C4_Witness ==
    \E c \in Callers :
        /\ calls[c].op = "wcf" /\ calls[c].pc = "done"
        /\ ~calls[c].fallbackToCache
        /\ calls[c].dbError \in {"E_P1001", "E_ConnClosed"}
        /\ calls[c].thrown = calls[c].dbError
        /\ dbAvailable = NULL

(* C10: a checkDatabase call that starts while the memo holds a boolean      *)
(* returns that boolean without issuing the liveness query; the first        *)
(* checkDatabase call after resetDatabaseCheck issues the liveness query,    *)
(* and a settled query memoizes its outcome.                                 *)
C10_MemoAndReprobe ==
    [][\A c \in Callers :
        /\ (EntersCheck(c) /\ calls'[c].op # "force" /\ dbAvailable # NULL)
           => /\ calls'[c].pc # "probing"
              /\ calls'[c].isDbAvailable = dbAvailable
        /\ (EntersCheck(c) /\ (resetPending \/ calls'[c].op = "force"))
           => calls'[c].pc = "probing"
        /\ (calls[c].pc = "answered" /\ calls'[c].pc # "answered")
           => /\ dbAvailable' = calls[c].probe
              /\ calls'[c].isDbAvailable = calls[c].probe
      ]_vars


----------------------------------------------------------------------------
(* Claims on the sync engine, checked under SpecSync and SpecPlayback *)

\* the newest playedAt among an identity's rows, NoTime when it has none
NewestStored(u) ==
    IF \E r \in DOMAIN trackStat : r.userId = u
    THEN CHOOSE m \in {r.playedAt : r \in {x \in DOMAIN trackStat : x.userId = u}} :
            \A r \in DOMAIN trackStat : r.userId = u => r.playedAt <= m
    ELSE NoTime

\* C5: after any sequence of non-overlapping syncRecentlyPlayed, syncTopTracks
\* and syncUserPlayback calls the table never holds two PlayEvents with the
\* same (userId, trackId, playedAt), also when one upstream response lists the
\* same play more than once.
C5_NoDuplicatePlayEvents ==
    \A r \in DOMAIN trackStat :
        KeyCount(trackStat, r.userId, r.trackId, r.playedAt) = 1

\* C5 witness: inside a syncUserPlayback, syncRecentlyPlayed got a response of
\* two entries for an identity without rows and one row exists afterwards (the
\* two entries were the same play), while another identity holds a row with
\* the same trackId and playedAt
C5_Witness ==
    /\ job = [userId |-> "u1", step |-> "tracks"]
    /\ syncResult.op = "recent" /\ syncResult.userId = "u1" /\ syncResult.ok
    /\ syncResult.total = 2 /\ syncResult.synced = 1
    /\ \E r \in DOMAIN trackStat :
          /\ r.userId = "u1"
          /\ \A x \in DOMAIN trackStat : x.userId = "u1" => x = r
          /\ \E o \in DOMAIN trackStat :
                o.userId = "u2" /\ o.trackId = r.trackId /\ o.playedAt = r.playedAt

\* the upstream holds no play newer than the identity's newest row
NoNewerUpstream(u) == \A e \in UpstreamPlays(u) : e.playedAt <= NewestStored(u)

\* a step that is a call of syncRecentlyPlayed for u returning normally
RecentSyncReturns(u) ==
    /\ \E resp \in RecentResponses(u, LastPlayedAt(trackStat, u)) : SyncRecentlyPlayed(u, resp)
    /\ syncResult'.ok

\* C7: a syncRecentlyPlayed call made when the upstream has no play newer than
\* what is stored returns synced = 0 and leaves the stored PlayEvents as they
\* were; the state it leaves satisfies the same condition, so a second call
\* in a row does the same.
C7_QuietSyncChangesNothing ==
    [][\A u \in Users :
          (RecentSyncReturns(u) /\ NoNewerUpstream(u))
              => /\ syncResult'.synced = 0
                 /\ trackStat' = trackStat
                 /\ NoNewerUpstream(u)']_vars

\* C7 witness: two calls in a row for u1 returned synced = 0, the upstream
\* holds plays and every one of them is stored
C7_Witness ==
    /\ syncResult.op = "recent" /\ syncResult.userId = "u1" /\ syncResult.ok
    /\ syncResult.synced = 0 /\ syncResult.repeat
    /\ upPlays["u1"] # <<>>
    /\ NoNewerUpstream("u1")
    /\ \A e \in UpstreamPlays("u1") : KeyCount(trackStat, "u1", e.trackId, e.playedAt) = 1

\* a step that is a call of syncRecentlyPlayed for an identity without rows,
\* answered resp by the upstream and returning normally
FirstSyncReturns(u, resp) ==
    /\ RowsOf(trackStat, u) = {}
    /\ syncResult'.op = "recent" /\ syncResult'.ok
    /\ syncResult'.total = Len(resp)
    /\ SyncRecentlyPlayed(u, resp)

\* the plays a response lists, each once
Listed(resp) == {resp[i] : i \in 1..Len(resp)}

\* C19 as it is worded: all N listed events are inserted and synced = total = N
C19_AsStated ==
    [][\A u \in Users, resp \in ListsOver(AllPlays) :
          FirstSyncReturns(u, resp) =>
              /\ syncResult'.synced = Len(resp)
              /\ syncResult'.total = Len(resp)
              /\ \A e \in Listed(resp) :
                    KeyCount(trackStat', u, e.trackId, e.playedAt) = 1]_vars

(* C19: when syncRecentlyPlayed runs for an identity with no stored          *)
(* PlayEvents and the upstream returns N events, every listed event is       *)
(* inserted once, nothing else is, total = N and synced = the number of      *)
(* distinct (trackId, playedAt) among them: N when no event is listed twice. *)
C19_FirstSyncInsertsAll ==
    [][\A u \in Users, resp \in ListsOver(AllPlays) :
          FirstSyncReturns(u, resp) =>
              /\ syncResult'.synced = Cardinality(Listed(resp))
              /\ syncResult'.total = Len(resp)
              /\ \A e \in Listed(resp) :
                    KeyCount(trackStat', u, e.trackId, e.playedAt) = 1
              /\ Cardinality(RowsOf(trackStat', u)) = Cardinality(Listed(resp))
              /\ \A r \in DOMAIN trackStat : Copies(trackStat', r) = trackStat[r]]_vars

\* a first sync for u1 was answered two different plays and stored both
C19_Witness ==
    /\ syncResult.op = "recent" /\ syncResult.userId = "u1" /\ syncResult.ok
    /\ syncResult.total = 2 /\ syncResult.synced = 2
    /\ Cardinality(RowsOf(trackStat, "u1")) = 2
    /\ \A r \in RowsOf(trackStat, "u1") : r.playedAt # topTracksTimestamp

\* a step that is a call of syncTopArtists for u with the upstream listing arts
TopArtistsSync(u, arts) == SyncTopArtists(u, arts)

\* C8 as stated: every syncTopArtists call creates a listed artist's aggregate
\* with playCount = 1 if absent and otherwise adds exactly 1 to its playCount,
\* and no step lowers or resets the playCount of an existing aggregate.
\* Violated: an artist listed twice in one upstream result is upserted twice.
C8_OnePerCall ==
    [][/\ \A u \in Users, arts \in ListsOver(Artists) :
            TopArtistsSync(u, arts) =>
                \A a \in Artists :
                    Occurrences(arts, a) > 0 =>
                        /\ artistStat'[u][a].present
                        /\ artistStat'[u][a].playCount =
                              IF artistStat[u][a].present
                              THEN artistStat[u][a].playCount + 1 ELSE 1
       /\ \A u \in Users, a \in Artists :
            artistStat[u][a].present =>
                /\ artistStat'[u][a].present
                /\ artistStat'[u][a].playCount >= artistStat[u][a].playCount]_vars

\* the second half of C8 alone: an existing aggregate stays and its playCount
\* never goes down
C8_NeverDecreases ==
    [][\A u \in Users, a \in Artists :
          artistStat[u][a].present =>
              /\ artistStat'[u][a].present
              /\ artistStat'[u][a].playCount >= artistStat[u][a].playCount]_vars

\* what the code does: one upsert per entry of the upstream result
C8_OnePerListing ==
    [][\A u \in Users, arts \in ListsOver(Artists) :
          TopArtistsSync(u, arts) =>
              \A a \in Artists :
                  artistStat'[u][a].playCount =
                      artistStat[u][a].playCount + Occurrences(arts, a)]_vars

-----------------------------------------------------------------------------
(* Claims on the profile read, checked under SpecProfile *)

\* stats.js:548-555  the fields of a profile response, whichever operation
\* produced the profile
ProfileFields ==
    {"topTracks", "topArtists", "genreDist", "avgEnergy", "avgValence", "lastUpdated"}

\* the body of a response as the client reads it
Received(r) == Parse(r.body)

\* a profile was answered from the operation named by path
Answered(r, path) == r.status = "200" /\ r.path = path

(* C6: every profile the read answers from the cache path, a cached snapshot *)
(* or a degraded profile built from upstream data, carries a fallback marker: *)
(* something in the body beyond the profile fields a store-path answer has.  *)
C6_CachePathCarriesMarker ==
    Answered(response, "cache") =>
        \E k \in Keys(Received(response)) : k \notin ProfileFields

\* the other half of C6: an answer from the cache path right after an answer
\* from the store never has the same body (instants apart)
C6_DistinguishableFromStore ==
    [][(Answered(response, "store") /\ Answered(response', "cache")) =>
          response'.body # response.body]_vars

\* the answers differ in nothing but their data: both paths send exactly the
\* profile fields
C6_SameShapeOnBothPaths ==
    response.status = "200" => Keys(Received(response)) = ProfileFields

-----------------------------------------------------------------------------
(* Claims on the file cache, checked under SpecCache *)

\* the step is a load of the key whose save is followed: no write to that
\* key since the save
LoadsFollowed(i, l) ==
    /\ CacheLoad(i, l)
    /\ saved.userId = i
    /\ saved.dataType = l

(* C9: for every identity, label and JSON-serializable value X, a load of    *)
(* (identity, label) after save(identity, label, X), with no write to that   *)
(* key in between, returns a value deep-equal to X.                          *)
C9_SaveThenLoad ==
    [][\A i \in CacheIds, l \in CacheLabels :
          (LoadsFollowed(i, l) /\ IsJson(saved.data)) =>
              DeepEqual(cacheIO'.value, saved.data)]_vars

\* what holds of the code: the round trip of a JSON value, as long as no other
\* key with the same file name was written or deleted in between
C9_RoundTripAlone ==
    [][\A i \in CacheIds, l \in CacheLabels :
          (LoadsFollowed(i, l) /\ IsJson(saved.data) /\ saved.alone) =>
              DeepEqual(cacheIO'.value, saved.data)]_vars

\* values the program itself saves that JSON cannot express (a Date, an
\* undefined property, NaN) do not come back deep-equal even alone
C9_RoundTripAnyValue ==
    [][\A i \in CacheIds, l \in CacheLabels :
          (LoadsFollowed(i, l) /\ saved.alone) =>
              DeepEqual(cacheIO'.value, saved.data)]_vars

-----------------------------------------------------------------------------
(* Further claims on the gate, checked under SpecGate *)

\* the step in which checkDatabase returns to caller c: at once on a memoized
\* boolean, or when its liveness query has settled
CheckReturns(c) ==
    /\ calls[c].pc \in {"idle", "answered"}
    /\ calls'[c].pc \notin {"idle", "probing", "answered"}

\* the step in which the liveness query of caller c settles as failed
ProbeFails(c) ==
    /\ calls[c].pc = "answered"
    /\ calls[c].probe = "false"
    /\ calls'[c].pc # "answered"

(* C11: checkDatabase never throws and always returns a boolean, never the   *)
(* empty memo, whatever resets and other checkDatabase calls interleave; a   *)
(* liveness query that fails yields false and leaves false memoized.         *)
C11_CheckReturnsBoolean ==
    [][\A c \in Callers :
          /\ CheckReturns(c) =>
                /\ calls'[c].isDbAvailable \in {"true", "false"}
                /\ calls'[c].op \in {"check", "force"} =>
                      /\ calls'[c].kind = "return"
                      /\ calls'[c].ret = calls'[c].isDbAvailable
          /\ ProbeFails(c) =>
                /\ calls'[c].isDbAvailable = "false"
                /\ dbAvailable' = "false"]_vars

\* a checkDatabase call returned false from a failed query, and left it
\* memoized, while the query of another call is still in flight
C11_Witness ==
    \E c, d \in Callers :
        /\ c # d
        /\ calls[c].op = "check" /\ calls[c].pc = "done"
        /\ calls[c].kind = "return" /\ calls[c].ret = "false"
        /\ dbAvailable = "false"
        /\ calls[d].pc \in {"probing", "answered"}

-----------------------------------------------------------------------------
(* Claims on the upstream client, checked under SpecRetry and FairRetry *)

\* a makeRequestWithRetry call is in progress
RetryRunning == retry.pc \in {"attempting", "waiting"}

\* the step in which requestFn is invoked again
Retries == retry'.invocations = retry.invocations + 1 /\ retry.pc = "waiting"

\* the step in which an attempt fails
Fails == retry.pc = "attempting" /\ retry'.lastError # NoError /\ retry'.pc # "attempting"

(* C12: makeRequestWithRetry always terminates: a call in progress ends; it  *)
(* invokes the request function at most maxRetries + 1 times; and a call     *)
(* that throws, throws the error of its last attempt.                        *)
C12_TerminatesWithinBudget ==
    /\ [](retry.invocations <= retry.maxRetries + 1)
    /\ [][\A e \in RequestErrors : AttemptFails(e) => retry'.lastError = e]_vars
    /\ [](retry.kind = "throw" => retry.thrown = retry.lastError)
    /\ (RetryRunning ~> retry.pc = "done")

\* every attempt of a call with the default budget failed, and the call threw
C12_Witness ==
    /\ retry.pc = "done" /\ retry.kind = "throw"
    /\ retry.maxRetries = DefaultMaxRetries
    /\ retry.invocations = DefaultMaxRetries + 1
    /\ retry.thrown # NoError

\* a retry-after header that gives a number of seconds, and that number
SecondsOf == (<<"0">> :> 0) @@ (<<"2">> :> 2)

\* the delay the claim asks for after a 429 with header text h on attempt k
AskedDelay(h, k) ==
    IF h \in DOMAIN SecondsOf THEN SecondsOf[h] * 1000 ELSE baseDelay * Pow2(k)

RetryOf401FailsWith401 ==
    /\ AttemptFails("R_401")
    /\ retry.attempt > 0
    /\ retry.lastError = "R_401"

(* C14: within one makeRequestWithRetry call a 401 failure is retried once:  *)
(* when the retry fails with 401 too, the error is thrown and no further     *)
(* attempt is made, whatever maxRetries is.                                  *)
C14_AuthRetriedOnce ==
    [][RetryOf401FailsWith401 =>
          /\ retry'.pc = "done"
          /\ retry'.kind = "throw"
          /\ retry'.thrown = "R_401"]_vars

\* what the code does: a 401 is retried as long as rounds are left
C14_AuthRetriedWhileRoundsLeft ==
    [][AttemptFails("R_401") =>
          IF retry.attempt < retry.maxRetries
          THEN retry'.pc = "waiting" /\ retry'.wakeAt = retry'.failedAt + AuthRetryDelay
          ELSE retry'.pc = "done" /\ retry'.thrown = "R_401"]_vars

(* C15: when an upstream call fails with 401, the client invokes the token   *)
(* provider's refresh path before it retries, and the retry is sent with the *)
(* credential that refresh returned, not with the one of the failed attempt. *)
C15_RetryWithRefreshedCredential ==
    [][(Retries /\ retry.lastError = "R_401") =>
          /\ auth'.exchanges > retry.exchangesAtFail
          /\ retry'.credential = AccessToken(auth'.exchanges)
          /\ retry'.credential # retry.credential]_vars

\* what the code does: the headers are built once, before the first attempt,
\* and a call in progress neither asks the token provider nor changes them
C15_OneCredentialPerCall ==
    [][(RetryRunning /\ retry'.pc # "idle") =>
          /\ retry'.credential = retry.credential
          /\ auth' = auth]_vars

(* C16: an attempt that fails with an error that is neither a 429 nor a 401, *)
(* a timeout or a network error without a response included, is the last     *)
(* one: makeRequestWithRetry throws that same error at once, with no wait    *)
(* and no further attempt.                                                   *)
C16_OtherErrorsFailAtOnce ==
    [][\A e \in RequestErrors :
          (AttemptFails(e) /\ RequestErrorTable[e].status \notin {429, 401}) =>
              /\ retry'.pc = "done"
              /\ retry'.kind = "throw"
              /\ retry'.thrown = e
              /\ retry'.invocations = retry.invocations
              /\ retry'.now = retry.now + RequestErrorTable[e].elapsed]_vars

\* a call with rounds left threw the timeout of its second attempt
C16_Witness ==
    /\ retry.pc = "done" /\ retry.kind = "throw"
    /\ retry.thrown = "R_Timeout"
    /\ retry.invocations = 2
    /\ retry.maxRetries = DefaultMaxRetries

-----------------------------------------------------------------------------
(* Claims on the token provider, checked under SpecTokens *)

\* the expiry the last call looked at is missing or earlier than now + 5 min
WithinMargin == auth.last.expiry = NoExpiry \/ auth.last.expiry < NowMinute + 5

\* the last call asked the auth endpoint for a refresh exchange
AskedExchange == auth.last.tried

\* C17 as it is worded: the exchange is made exactly when the expiry is
\* missing or earlier than now + 5 minutes, for every identity
C17_AsStated ==
    auth.last.kind # "none" => (AskedExchange <=> WithinMargin)

(* C17: for an identity that has a refresh token, getValidAccessToken asks   *)
(* for a refresh exchange exactly when the token expiry is missing or        *)
(* earlier than now + 5 minutes, and otherwise returns the identity's access *)
(* token as it is; without a refresh token it throws and asks for nothing.   *)
C17_RefreshWithinMargin ==
    auth.last.kind # "none" =>
        /\ auth.last.hadRefresh => (AskedExchange <=> WithinMargin)
        /\ (auth.last.hadRefresh /\ ~WithinMargin) =>
              auth.last.kind = "return" /\ ~auth.last.exchanged
        /\ ~auth.last.hadRefresh => (auth.last.kind = "throw" /\ ~AskedExchange)

\* a token that expires in 4 minutes was refreshed
C17_Witness ==
    /\ auth.last.kind = "return"
    /\ auth.last.expiry = NowMinute + 4
    /\ auth.last.exchanged
    /\ auth.last.token = AccessToken(auth.exchanges)

\* the token and expiry the last call obtained are what the store's identity
\* record holds, or for a provisional identity what its 'tokens' snapshot holds
Persisted(call) ==
    IF IsTemp(call.userId)
    THEN LET snapshot == LocalCacheLoad(cacheFiles, call.userId, "tokens")
         IN /\ snapshot.t = "obj"
            /\ Member(snapshot, "accessToken") = JsStr(call.token)
            /\ Member(snapshot, "tokenExpiresAt") = JsStr(ToISOString(call.newExpiry))
    ELSE /\ auth.users[call.userId].accessToken = call.token
         /\ auth.users[call.userId].tokenExpiresAt = call.newExpiry

(* C18: whenever getValidAccessToken returns a token obtained by a refresh   *)
(* exchange, the new access token and its expiry have been persisted: in the *)
(* store's identity record for a full identity, in the cache snapshot        *)
(* labelled 'tokens' for a provisional identity.                             *)
C18_RefreshedTokenPersisted ==
    (auth.last.kind = "return" /\ auth.last.exchanged) => Persisted(auth.last)

\* what the code does: the refreshed token of a full identity reaches the
\* store when the store is up at that moment
C18_PersistedWhileStoreUp ==
    [][( /\ auth'.exchanges > auth.exchanges
         /\ ~IsTemp(auth'.last.userId)
         /\ dbUp ) =>
            /\ auth'.users[auth'.last.userId].accessToken = auth'.last.token
            /\ auth'.users[auth'.last.userId].tokenExpiresAt = auth'.last.newExpiry]_vars

-----------------------------------------------------------------------------
(* Claims on the genre distribution, checked under SpecGenres *)

\* the aggregates of u that are in the store
Aggregates(u) == {a \in Artists : artistStat[u][a].present}

\* the aggregates of u carrying genre g
Carrying(u, g) == {a \in Aggregates(u) : Occurrences(artistStat[u][a].genres, g) > 0}

\* the genres some aggregate of u carries
GenresOf(u) ==
    UNION {{artistStat[u][a].genres[j] : j \in 1..Len(artistStat[u][a].genres)} :
             a \in Aggregates(u)}

\* the sum of count(a) over the artists of S
RECURSIVE SumOver(_, _, _)
SumOver(u, S, perGenre) ==
    IF S = {} THEN 0
    ELSE LET a == CHOOSE x \in S : TRUE
         IN artistStat[u][a].playCount
              * (IF perGenre THEN Len(artistStat[u][a].genres) ELSE 1)
            + SumOver(u, S \ {a}, perGenre)

\* the weight of every (artist, genre) pair of u together
PairsWeight(u) == SumOver(u, Aggregates(u), TRUE)

\* the numerators of a genreDist added up
RECURSIVE SumNumerators(_, _)
SumNumerators(dist, S) ==
    IF S = {} THEN 0
    ELSE LET g == CHOOSE x \in S : TRUE
         IN dist[g][1] + SumNumerators(dist, S \ {g})

\* genreDist holds, for the genres of u's aggregates and no other, the summed
\* playCount of the carriers over the weight of all pairs, and sums to 1
DistAsStated(u, dist) ==
    /\ DOMAIN dist = GenresOf(u)
    /\ \A g \in DOMAIN dist :
          /\ dist[g][2] > 0
          /\ dist[g][1] * PairsWeight(u) = SumOver(u, Carrying(u, g), FALSE) * dist[g][2]
    /\ \E den \in {TotalGenreWeight(ProfileTopArtists(artistStat[u]))} :
          /\ den > 0
          /\ \A g \in DOMAIN dist : dist[g][2] = den
          /\ SumNumerators(dist, DOMAIN dist) = den

(* C20: for every non-empty set of an identity's ArtistAggregates,           *)
(* buildMusicProfile produces a genreDist in which each genre's weight is    *)
(* the summed playCount of the artists carrying it over the total weight of  *)
(* all (artist, genre) pairs, so that the weights sum to 1; with no          *)
(* ArtistAggregates genreDist is the empty map.                              *)
C20_GenreDistSumsToOne ==
    [][\A u \in Syncing :
          BuildProfile(u) =>
              IF Aggregates(u) = {}
              THEN musicProfile'[u].genreDist = <<>>
              ELSE DistAsStated(u, musicProfile'[u].genreDist)]_vars

\* what the code does: the claim holds when every aggregate carries a genre
C20_SumsToOneWhenAllCarry ==
    [][\A u \in Syncing :
          ( /\ BuildProfile(u)
            /\ Aggregates(u) # {}
            /\ \A a \in Aggregates(u) : artistStat[u][a].genres # <<>> ) =>
              DistAsStated(u, musicProfile'[u].genreDist)]_vars

\* a profile built over a pop artist played 3 times and an artist without
\* genres played twice: pop is 3/5 and nothing else is in genreDist
C20_Shortfall ==
    /\ musicProfile["u1"].present
    /\ artistStat["u1"]["a1"] = [present |-> TRUE, playCount |-> 3, genres |-> <<"pop">>]
    /\ artistStat["u1"]["a2"] = [present |-> TRUE, playCount |-> 2, genres |-> <<>>]
    /\ DOMAIN musicProfile["u1"].genreDist = {"pop"}
    /\ musicProfile["u1"].genreDist["pop"] = <<3, 5>>

-----------------------------------------------------------------------------
(* Claims on the feature averages and the top tracks, checked under          *)
(* SpecFeatures                                                              *)

\* the stored PlayEvents of u that have feature values
Featured(u) ==
    {r \in RowsOf(trackStat, u) : r.energy # NoFeature /\ r.valence # NoFeature}

\* the distinct tracks among them
FeaturedTracks(u) == {r.trackId : r \in Featured(u)}

\* the feature value of a track that has one
FeatureOf(u, t, col) == (CHOOSE r \in Featured(u) : r.trackId = t)[col]

\* <<sum of value * plays, sum of plays>> over the tracks of S
RECURSIVE ByTrack(_, _, _)
ByTrack(u, S, col) ==
    IF S = {} THEN <<0, 0>>
    ELSE LET t == CHOOSE x \in S : TRUE
             rest == ByTrack(u, S \ {t}, col)
             plays == PlaysOf(trackStat, u, t)
         IN <<rest[1] + FeatureOf(u, t, col) * plays, rest[2] + plays>>

\* two quotients <<n, d>> with d > 0 are the same number
SameQuotient(p, q) == p[2] > 0 /\ q[2] > 0 /\ p[1] * q[2] = q[1] * p[2]

\* avg is the average of col over u's featured tracks weighted by their plays
AverageAsStated(u, avg, col) ==
    IF Featured(u) = {} THEN avg = NoAverage
    ELSE SameQuotient(avg, ByTrack(u, FeaturedTracks(u), col))

(* C21: buildMusicProfile sets avgEnergy (and likewise avgValence) to the    *)
(* sum, over the distinct tracks that have feature values, of the track's    *)
(* feature value times the number of stored PlayEvents of that track,        *)
(* divided by the sum of those counts; null when no stored PlayEvent has     *)
(* feature values.                                                           *)
C21_AverageWeightedByPlays ==
    [][\A u \in Syncing :
          BuildProfile(u) =>
              /\ AverageAsStated(u, musicProfile'[u].avgEnergy, "energy")
              /\ AverageAsStated(u, musicProfile'[u].avgValence, "valence")]_vars

\* <<sum of value * plays, sum of plays>> over the featured PlayEvents of S:
\* a track counts once per featured PlayEvent, each time with all its plays
RECURSIVE ByEvent(_, _, _)
ByEvent(u, S, col) ==
    IF S = {} THEN <<0, 0>>
    ELSE LET r == CHOOSE x \in S : TRUE
             rest == ByEvent(u, S \ {r}, col)
             plays == PlaysOf(trackStat, u, r.trackId)
         IN <<rest[1] + r[col] * plays, rest[2] + plays>>

\* what the code does: the sum runs over the featured PlayEvents, not over the
\* distinct tracks
C21_AveragePerEvent ==
    [][\A u \in Syncing :
          BuildProfile(u) =>
              \A col \in {"energy", "valence"} :
                  LET avg == IF col = "energy" THEN musicProfile'[u].avgEnergy
                             ELSE musicProfile'[u].avgValence
                  IN IF Featured(u) = {} THEN avg = NoAverage
                     ELSE SameQuotient(avg, ByEvent(u, Featured(u), col))]_vars

\* a profile built over t1 (energy 80) stored twice and t2 (energy 20) stored
\* once, all with features: avgEnergy is 340/5 and not 180/3
C21_Skewed ==
    /\ musicProfile["u1"].present
    /\ PlaysOf(trackStat, "u1", "t1") = 2 /\ PlaysOf(trackStat, "u1", "t2") = 1
    /\ Cardinality(Featured("u1")) = 3
    /\ musicProfile["u1"].avgEnergy = <<340, 5>>

\* the distinct tracks u has stored PlayEvents of
StoredTracks(u) == {r.trackId : r \in RowsOf(trackStat, u)}

\* top is the list of the claim for u's stored PlayEvents
TopTracksAsStated(u, top) ==
    LET kept == {top[i].trackId : i \in 1..Len(top)}
    IN /\ Len(top) <= TopN
       /\ Cardinality(kept) = Len(top)
       /\ kept \subseteq StoredTracks(u)
       /\ \A i \in 1..Len(top) : top[i].plays = PlaysOf(trackStat, u, top[i].trackId)
       /\ \A i \in 1..(Len(top) - 1) : top[i].plays >= top[i + 1].plays
       /\ \A t \in StoredTracks(u) \ kept :
             /\ Len(top) = TopN
             /\ \A i \in 1..Len(top) : PlaysOf(trackStat, u, t) <= top[i].plays

(* C22: buildMusicProfile's topTracks holds at most 20 entries, one per      *)
(* distinct trackId, each with plays equal to the number of stored           *)
(* PlayEvents of that track for the identity, in non-increasing order of     *)
(* plays; no omitted track has strictly more plays than an included one, and *)
(* a track is omitted only when 20 are included.                             *)
C22_TopTracks ==
    [][\A u \in Syncing :
          BuildProfile(u) => TopTracksAsStated(u, musicProfile'[u].topTracks)]_vars

\* a profile built over 22 stored tracks, the last of the catalogue with 3
\* PlayEvents: it leads the 20 that are kept, and two tracks are omitted
C22_Witness ==
    /\ musicProfile["u1"].present
    /\ Cardinality(StoredTracks("u1")) = TopN + 2
    /\ Len(musicProfile["u1"].topTracks) = TopN
    /\ musicProfile["u1"].topTracks[1].trackId = "k22"
    /\ musicProfile["u1"].topTracks[1].plays = 3
    /\ musicProfile["u1"].topTracks[TopN].plays = 1

-----------------------------------------------------------------------------
(* Claims on the batch job, checked under SpecBatch and FairBatch *)

\* the identities whose sync was attempted so far, in the order of the attempts
Attempted == [i \in 1..Len(batch.log) |-> batch.log[i].userId]

\* a run is in progress
BatchRunning == batch.pc \in {"query", "sync", "delay"}

(* C23: syncAllUsersData attempts the sync of every identity its identity    *)
(* query returned exactly once, in list order, whatever subset of the        *)
(* earlier syncs failed, and then terminates.                                *)
C23_EveryIdentityOnce ==
    /\ [](/\ Len(Attempted) <= Len(batch.users)
          /\ Attempted = SubSeq(batch.users, 1, Len(Attempted))
          /\ batch.pc = "sync" => batch.next = Len(Attempted) + 1
          /\ batch.ended = "completed" => Attempted = batch.users)
    /\ [](batch.pc = "done" => batch.ended \in {"completed", "queryFailed", "skipped"})
    /\ (BatchRunning ~> batch.pc = "done")

\* a run over three identities is over: the first sync failed, the second
\* returned, the third failed, and all three were attempted
C23_Witness ==
    /\ batch.pc = "done" /\ batch.ended = "completed"
    /\ Len(batch.users) = 3 /\ Len(batch.log) = 3
    /\ ~batch.log[1].ok /\ batch.log[2].ok /\ ~batch.log[3].ok

\* a step in which the sync of an identity after the first of the run starts
NextSyncStarts ==
    /\ batch'.pc = "sync" /\ batch'.next = batch.next + 1 /\ batch.next >= 1

(* C30: in the batch job the sync of the next identity starts only after the *)
(* sync of the previous identity has ended and the fixed inter-identity      *)
(* delay has elapsed, whether the previous sync succeeded or failed.         *)
C30_DelayBetweenIdentities ==
    [][NextSyncStarts =>
          /\ Len(batch'.log) = batch.next
          /\ batch'.startedAt >= batch'.log[batch.next].endedAt + InterIdentityDelay]_vars

\* what the code does: the next sync starts after the previous one has ended,
\* and the delay has elapsed when the previous one returned
C30_DelayAfterSuccess ==
    [][NextSyncStarts =>
          /\ Len(batch'.log) = batch.next
          /\ batch'.startedAt >= batch'.log[batch.next].endedAt
          /\ batch'.log[batch.next].ok =>
                batch'.startedAt >= batch'.log[batch.next].endedAt + InterIdentityDelay]_vars

\* the second sync of a run started at the instant the first one failed
C30_NoDelayAfterFailure ==
    /\ batch.pc = "sync" /\ batch.next = 2
    /\ ~batch.log[1].ok
    /\ batch.startedAt = batch.log[1].endedAt

-----------------------------------------------------------------------------
(* Claims on syncUserPlayback, checked under SpecPlayback *)

\* the step after each step of syncUserPlayback
StepAfter ==
    [recent |-> "tracks", tracks |-> "artists", artists |-> "profile", profile |-> "idle"]

\* the job of u once step s has returned
Advanced(u, s) ==
    IF StepAfter[s] = "idle" THEN IdleJob ELSE [userId |-> u, step |-> StepAfter[s]]

(* C24: syncUserPlayback starts the top-tracks sync only after the           *)
(* recent-plays sync has completed, the top-artists sync only after the      *)
(* top-tracks sync, and profile aggregation only after the top-artists sync; *)
(* if a step fails, no later step runs and the error propagates.             *)
C24_StepsInOrder ==
    [][/\ (job' # job /\ job'.step \notin {"idle", "recent"}) =>
              /\ job.userId = job'.userId
              /\ job'.step = StepAfter[job.step]
              /\ syncResult'.ok /\ syncResult'.op = job.step
              /\ syncResult'.userId = job.userId
       /\ (job.step # "idle" /\ job' # job) =>
              /\ syncResult'.userId = job.userId
              /\ syncResult'.op \in {job.step, "playback"}
              /\ syncResult'.ok => job' = Advanced(job.userId, job.step)
              /\ ~syncResult'.ok => (job' = IdleJob /\ syncResult'.op = job.step)
       /\ (job.step # "idle" /\ job' = job) =>
              UNCHANGED <<trackStat, artistStat, musicProfile, syncResult>>
       /\ job.step \in {"recent", "tracks"} =>
              UNCHANGED <<artistStat, musicProfile>>
       /\ job.step = "artists" => UNCHANGED <<trackStat, musicProfile>>
       /\ job.step = "profile" => UNCHANGED <<trackStat, artistStat>>]_vars

\* a syncUserPlayback of u1 has gone through its four steps and stored a profile
C24_Witness ==
    /\ job = IdleJob
    /\ syncResult.op = "playback" /\ syncResult.userId = "u1" /\ syncResult.ok
    /\ musicProfile["u1"].present
    /\ Len(musicProfile["u1"].topTracks) > 0
    /\ artistStat["u1"]["a1"].present

-----------------------------------------------------------------------------
(* Claims on the keys of the cache, checked under SpecCache *)

\* the step is a save or a delete on the key (i, l)
WritesKey(i, l) ==
    \/ \E x \in JsonSamples \cup OtherSamples : CacheSave(i, l, x)
    \/ CacheDelete(i, l)

\* what load returns for the key (i, l) is the same before and after the step
LoadUnchanged(i, l) ==
    LocalCacheLoad(cacheFiles', i, l) = LocalCacheLoad(cacheFiles, i, l)

(* C25: for any two distinct (identityId, label) keys, LocalCache.save or    *)
(* LocalCache.delete on one key leaves the value that LocalCache.load        *)
(* returns for the other key unchanged.                                      *)
C25_KeysDoNotInterfere ==
    [][\A i \in CacheIds, l \in CacheLabels :
          WritesKey(i, l) =>
              \A i2 \in CacheIds, l2 \in CacheLabels :
                  <<i2, l2>> # <<i, l>> => LoadUnchanged(i2, l2)]_vars

\* what the code does: keys whose file names differ do not interfere
C25_FilesDoNotInterfere ==
    [][\A i \in CacheIds, l \in CacheLabels :
          WritesKey(i, l) =>
              \A i2 \in CacheIds, l2 \in CacheLabels :
                  getCacheFilePath(i2, l2) # getCacheFilePath(i, l) =>
                      LoadUnchanged(i2, l2)]_vars

\* the file temp_john_doe_profile.json holds what temp_john saved under
\* doe_profile, and it is what temp_john_doe loads under profile
C25_SharedFile ==
    /\ cacheFiles[getCacheFilePath("temp_john_doe", "profile")] # NoFile
    /\ Member(Parse(cacheFiles[getCacheFilePath("temp_john_doe", "profile")]), "userId")
          = JsStr("temp_john")
    /\ cacheIO.op = "load" /\ cacheIO.userId = "temp_john_doe"
    /\ cacheIO.dataType = "profile" /\ cacheIO.value = JsStr("x")

-----------------------------------------------------------------------------
(* Claims on the sentinel events of syncTopTracks, checked under SpecSync *)

\* the keys (trackId, playedAt) under which the step stores a new PlayEvent of u
InsertedKeys(u) ==
    {k \in (Tracks \X ({topTracksTimestamp} \cup PlayTimes)) :
        KeyCount(trackStat', u, k[1], k[2]) > KeyCount(trackStat, u, k[1], k[2])}

\* the tracks of a list that u has no stored PlayEvent of
Unstored(u, tops) == {t \in Range(tops) : ~FindFirstByTrack(trackStat, u, t)}

\* a step that is a call of syncTopTracks for u with the upstream listing tops
TopSyncReturns(u, tops) ==
    /\ syncResult'.op = "tracks" /\ syncResult'.userId = u
    /\ syncResult'.total = Len(tops)
    /\ SyncTopTracks(u, tops, FALSE)

(* C26: syncTopTracks inserts a PlayEvent with the sentinel playedAt for an  *)
(* upstream top track only if the identity has no stored PlayEvent for that  *)
(* trackId; after any sequence of calls there is at most one sentinel event  *)
(* per (identity, trackId), and repeating the call with the same upstream    *)
(* list inserts no event.                                                    *)
C26_SentinelOncePerTrack ==
    /\ [][\A u \in Users, tops \in ListsOver(Tracks) :
             TopSyncReturns(u, tops) =>
                 /\ InsertedKeys(u) = {<<t, topTracksTimestamp>> : t \in Unstored(u, tops)}
                 /\ syncResult'.synced = Cardinality(Unstored(u, tops))
                 /\ \A t \in Range(tops) : FindFirstByTrack(trackStat', u, t)
                 /\ Unstored(u, tops) = {} =>
                       (InsertedKeys(u) = {} /\ syncResult'.synced = 0)]_vars
    /\ [](\A u \in Users, t \in Tracks : KeyCount(trackStat, u, t, topTracksTimestamp) <= 1)

\* a syncTopTracks call listing two tracks was repeated: the second call
\* inserted nothing, and u1 has one sentinel event of t2
C26_Witness ==
    /\ syncResult.op = "tracks" /\ syncResult.userId = "u1" /\ syncResult.ok
    /\ syncResult.total = 2 /\ syncResult.synced = 0 /\ syncResult.repeat
    /\ KeyCount(trackStat, "u1", "t2", topTracksTimestamp) = 1
    /\ PlaysOf(trackStat, "u1", "t1") > 0

-----------------------------------------------------------------------------
(* Claims on stored PlayEvents under later syncs, checked under SpecRenames *)

\* row r is still stored after the step, with the fields of cols as they were
Kept(r, cols) ==
    \E r2 \in DOMAIN trackStat' :
        /\ Copies(trackStat', r2) > 0
        /\ \A c \in cols : r2[c] = r[c]

\* the rows stored before the step
Stored == {r \in DOMAIN trackStat : Copies(trackStat, r) > 0}

(* C27: no sync operation deletes a stored PlayEvent, and on an already      *)
(* stored PlayEvent a sync operation changes only the feature-enrichment     *)
(* fields: its userId, trackId, playedAt, name and artist stay as first      *)
(* written (name stands for name and artist here).                           *)
C27_ImmutableButFeatures ==
    [][\A r \in Stored : Kept(r, {"userId", "trackId", "playedAt", "name"})]_vars

\* what the code does: no PlayEvent is deleted and its key stays as written
C27_KeysKept ==
    [][\A r \in Stored : Kept(r, {"userId", "trackId", "playedAt"})]_vars

\* a play of t1 stored by syncRecentlyPlayed carries the title a later
\* syncTopTracks was answered
C27_Renamed ==
    \E r \in Stored :
        /\ r.userId = "u1" /\ r.trackId = "t1" /\ r.playedAt # topTracksTimestamp
        /\ r.name = "Alpha (Remastered)"

-----------------------------------------------------------------------------
(* Claims on the cache path of the profile read, checked under SpecProfile *)

\* the step is a profile read of u answered from the cache path (Listen and
\* the store's faults are the other steps: they change upPlays or dbUp)
CacheRead(u) ==
    /\ Answered(response', "cache") /\ response'.userId = u
    /\ upPlays' = upPlays /\ dbUp' = dbUp

\* the profile snapshot of u in a cache directory
Snapshot(files, u) == LocalCacheLoad(files, u, "profile")

\* the body the read sends for a profile
BodyOf(profile) == Stringify(ProfileBody(profile))

\* every entry of a list of the received profile has plays = 1
PlaysAllOne(r, list) ==
    \A i \in 1..Len(Member(Received(r), list).items) :
        Member(Member(Received(r), list).items[i], "plays") = JsNum(1, 1)

\* what the upstream can list a profile read
TopLists(S) == {<<>>} \cup {<<x>> : x \in S}

(* C28: on the cache path with no 'profile' snapshot for the identity, the   *)
(* profile read builds a degraded profile from the freshly fetched upstream  *)
(* top tracks and top artists with plays = 1 for every entry, saves it under *)
(* the 'profile' label and returns it; every later cache-path read returns   *)
(* the saved snapshot without calling the upstream, as long as the snapshot  *)
(* is there.                                                                 *)
C28_DegradedThenSnapshot ==
    [][\A u \in Syncing :
          CacheRead(u) =>
              IF Falsy(Snapshot(cacheFiles, u))
              THEN /\ \E tops \in TopLists(PbTracks), arts \in TopLists(PbArtists) :
                         /\ response'.body = BodyOf(DegradedProfile(tops, arts))
                         /\ Snapshot(cacheFiles', u) =
                               Snapshot(LocalCacheSave(cacheFiles, u, "profile",
                                                       DegradedProfile(tops, arts)), u)
                   /\ PlaysAllOne(response', "topTracks")
                   /\ PlaysAllOne(response', "topArtists")
                   /\ response'.body = BodyOf(Snapshot(cacheFiles', u))
              ELSE /\ cacheFiles' = cacheFiles
                   /\ response'.body = BodyOf(Snapshot(cacheFiles, u))]_vars

\* a cache-path read of u1 was answered the snapshot held in the cache: a
\* degraded profile of one track and one artist, each with plays = 1
C28_Witness ==
    /\ Answered(response, "cache") /\ response.userId = "u1"
    /\ ~Falsy(Snapshot(cacheFiles, "u1"))
    /\ response.body = BodyOf(Snapshot(cacheFiles, "u1"))
    /\ Len(Member(Received(response), "topTracks").items) = 1
    /\ Len(Member(Received(response), "topArtists").items) = 1
    /\ PlaysAllOne(response, "topTracks")

-----------------------------------------------------------------------------
(* Claims on recovery of the gate, checked under FairGate *)

\* no request is in flight
AllIdle == \A c \in Callers : calls[c].pc = "idle"

\* a store fault has been observed: a probe failed and its answer is the memo,
\* or a connectivity-class primary failure reset the memo
FaultObserved == unavailSeen \/ resetPending \/ dbAvailable = "false"

\* only reads arrive: the maintenance reset of fix_server.js is not used
NoForce == \A c \in Callers : calls[c].op # "force"

\* some withCacheFallback call is running its primary operation
PrimaryRuns == \E c \in Callers : calls[c].op = "wcf" /\ calls[c].pc = "primary"

(* C29: after a store fault has been observed, if the store becomes          *)
(* reachable again and stays reachable while reads keep arriving, some later *)
(* withCacheFallback call eventually runs the primary path again.            *)
C29_Recovery ==
    []((FaultObserved /\ AllIdle /\ []dbUp /\ []NoForce) => <>PrimaryRuns)

\* what the code does: once false is memoized and no request is probing or in
\* its primary operation, the memo stays false and no request leaves the cache
\* path, whatever the store does
OnCachePath ==
    /\ dbAvailable = "false"
    /\ \A c \in Callers : calls[c].pc \in {"idle", "secondary", "done"}

\* the step is the maintenance reset of fix_server.js, not a read
ForceStep == \E c \in Callers : calls[c].pc = "idle" /\ calls'[c].op = "force"

C29_StuckOnCachePath ==
    [][(OnCachePath /\ ~ForceStep) => OnCachePath']_vars

\* the store is reachable, false is memoized and a read is answered from the
\* cache
C29_StuckState ==
    /\ dbUp /\ OnCachePath
    /\ \E c \in Callers : calls[c].op = "wcf" /\ calls[c].pc = "done" /\ calls[c].ret = "cache"

-----------------------------------------------------------------------------
(* Claims on the executions of syncRecentlyPlayed, step by step *)

\* the step in which execution r gets its watermark and calls the upstream
WatermarkRead(r) == runs[r].pc = "watermark" /\ runs'[r].pc = "fetching"

(* C31: the lower bound that syncRecentlyPlayed passes to the upstream is    *)
(* the greatest playedAt among the rows stored for that identity, the        *)
(* 2000-01-01 rows of syncTopTracks included and the rows of other           *)
(* identities excluded; no lower bound is passed when the identity has no    *)
(* row.                                                                      *)
C31_LowerBoundIsNewestStored ==
    [][\A r \in Runners :
         WatermarkRead(r) =>
           LET mine == {row \in DOMAIN trackStat : row.userId = runs[r].userId}
           IN IF mine = {}
              THEN runs'[r].after = NoTime
              ELSE /\ \E row \in mine : row.playedAt = runs'[r].after
                   /\ \A row \in mine : row.playedAt <= runs'[r].after]_vars

\* an execution has sent the instant of a 2000-01-01 row as its lower bound
\* while another identity holds a later play
C31_Witness ==
    /\ runs["r1"].pc = "fetching"
    /\ runs["r1"].after = topTracksTimestamp
    /\ \E row \in DOMAIN trackStat :
          row.userId # runs["r1"].userId /\ row.playedAt > topTracksTimestamp

(* C32: when two syncRecentlyPlayed executions for the same identity         *)
(* interleave at their store calls (both fetch the same upstream plays, both *)
(* run the existence check before either inserts), the table never holds     *)
(* two rows with the same (userId, trackId, playedAt).                       *)
C32_RaceLeavesNoDuplicate ==
    \A u \in Users, t \in Tracks, at \in PlayTimes \cup {topTracksTimestamp} :
        KeyCount(trackStat, u, t, at) <= 1

\* both executions found the same play absent; one has written the row and the
\* create of the other was rejected
C32_Witness ==
    \E r, q \in Runners :
        /\ r # q
        /\ runs[r].userId = runs[q].userId
        /\ runs[r].pc = "done" /\ runs[r].kind = "throw" /\ runs[r].error = "P2002"
        /\ runs[r].rest # <<>>
        /\ runs[q].synced > 0
        /\ KeyCount(trackStat, runs[r].userId, Head(runs[r].rest).trackId,
                    Head(runs[r].rest).playedAt) = 1

\* the step in which the create of execution r is rejected for a taken key
CreateRejected(r) ==
    /\ runs[r].pc = "creating"
    /\ runs'[r] # runs[r]
    /\ runs'[r].error # "P1001"
    /\ PlayStored(trackStat, runs[r].userId, Head(runs[r].rest))

(* C39: when two syncRecentlyPlayed executions for the same identity race on *)
(* the same play and the store rejects the second insert for the taken       *)
(* (userId, trackId, playedAt) key, the losing execution treats the play as  *)
(* already present, goes on with its remaining plays and returns a           *)
(* {synced, total} result instead of failing.                                *)
C39_LoserGoesOn ==
    [][\A r \in Runners :
         CreateRejected(r) =>
           /\ runs'[r].kind # "throw"
           /\ runs'[r].synced = runs[r].synced
           /\ runs'[r] = LoopOn([runs[r] EXCEPT !.rest = Tail(@)])]_vars

\* what the code does: the rejection ends the losing execution with the store's
\* error, whatever is left of its list
C39_LoserThrows ==
    [][\A r \in Runners :
         CreateRejected(r) =>
           /\ runs'[r].pc = "done" /\ runs'[r].kind = "throw" /\ runs'[r].error = "P2002"
           /\ runs'[r].rest = runs[r].rest
           /\ trackStat' = trackStat]_vars

\* the losing execution has failed with a play still to handle behind the one
\* it lost, and that play is not stored
C39_LoserFailed ==
    \E r \in Runners :
        /\ runs[r].kind = "throw" /\ runs[r].error = "P2002"
        /\ Len(runs[r].rest) > 1
        /\ ~PlayStored(trackStat, runs[r].userId, runs[r].rest[2])

\* the step in which execution r returns its {synced, total}
ReturnsResult(r) ==
    runs[r].pc # "done" /\ runs'[r].pc = "done" /\ runs'[r].kind = "return"

(* C38: if a syncRecentlyPlayed execution fails after inserting some but not *)
(* all plays of the list it fetched (for any order in which the upstream     *)
(* lists them), a later successful syncRecentlyPlayed inserts the remaining  *)
(* plays of that list: no fetched play is skipped for good because the       *)
(* watermark moved past it.                                                  *)
C38_LaterSyncInsertsTheRest ==
    [][\A r \in Runners :
         ReturnsResult(r) =>
           \A o \in runs[r].owes : PlayStored(trackStat', o.userId, o.event)]_vars

\* what the code does: a play left behind by the failed execution is missed by
\* the later one exactly when it is older than the watermark the later one read
C38_MissedOnlyBehindWatermark ==
    [][\A r \in Runners :
         ReturnsResult(r) =>
           \A o \in runs[r].owes :
              \/ PlayStored(trackStat', o.userId, o.event)
              \/ o.event.playedAt < runs[r].after]_vars

\* a later execution has returned while a play that the failed one had fetched
\* is not stored and lies behind the identity's newest row: no later call asks
\* for it again
C38_Skipped ==
    \E r \in Runners :
        /\ runs[r].pc = "done" /\ runs[r].kind = "return"
        /\ \E o \in runs[r].owes :
              /\ ~PlayStored(trackStat, o.userId, o.event)
              /\ o.event.playedAt < LastPlayedAt(trackStat, o.userId)
              /\ o.event \in UpstreamPlays(o.userId)

-----------------------------------------------------------------------------
(* Claims on getValidAccessToken calls made through one user object *)

\* the step in which call f starts
FlightStarts(f) == flights[f].pc = "idle" /\ flights'[f].pc # "idle"

\* the object carries its own tokens: nothing is read from the 'tokens' snapshot
HoldsTokens(user) ==
    ~IsTemp(user.id) \/ (user.accessToken # NoToken /\ user.refreshToken)

(* C33: two getValidAccessToken calls for the same identity that overlap     *)
(* while its token is expired can both perform a refresh exchange: a call    *)
(* that starts while another one is waiting for its exchange asks for one of *)
(* its own (there is no single-flight guard), as when POST /sync runs        *)
(* syncRecentlyPlayed and syncTopArtists together.                           *)
C33_NoSingleFlight ==
    [][\A f \in Flyers :
         (/\ FlightStarts(f)
          /\ flights'[f].overlapped
          /\ HoldsTokens(svcUser) /\ svcUser.refreshToken
          /\ isTokenExpired(svcUser.tokenExpiresAt))
         => flights'[f].pc = "exchanging"]_vars

\* two overlapping calls have each got a token of their own from the auth endpoint
C33_Witness ==
    \E f, g \in Flyers :
        /\ f # g
        /\ flights[f].overlapped
        /\ flights[f].exchanged /\ flights[g].exchanged
        /\ flights[f].id = flights[g].id
        /\ flights[f].token # flights[g].token

(* C34: after getValidAccessToken has refreshed and persisted an identity's  *)
(* token, every later call made through the same user object while the new   *)
(* token is outside the 5-minute margin returns the new token without        *)
(* another refresh exchange.                                                 *)
C34_NoSecondRefresh ==
    [][\A f \in Flyers :
         (/\ FlightStarts(f) /\ flights'[f].readable
          /\ auth.persisted > 0 /\ ~isTokenExpired(NowMinute + ExpiresIn))
         => /\ flights'[f].pc = "done" /\ flights'[f].kind = "return"
            /\ flights'[f].token = auth.current]_vars

\* what the code does: a call made through an object that carries its tokens
\* decides on the object's own expiry, whatever was persisted before
C34_ObjectDecides ==
    [][\A f \in Flyers :
         (FlightStarts(f) /\ HoldsTokens(svcUser) /\ svcUser.refreshToken)
         => (flights'[f].pc = "exchanging" <=> isTokenExpired(svcUser.tokenExpiresAt))]_vars

\* a call that started after a refreshed token had been persisted, with no
\* other call waiting, has got yet another token from the auth endpoint
C34_RefreshedAgain ==
    \E f \in Flyers :
        /\ flights[f].after > 0 /\ ~flights[f].overlapped /\ flights[f].readable
        /\ flights[f].exchanged
        /\ flights[f].token # auth.current

-----------------------------------------------------------------------------
(* Claims on the aggregates a profile takes in, checked under SpecArtists *)

\* every aggregate stored for u
StoredArtists(u) == {a \in DOMAIN artistStat[u] : artistStat[u][a].present}

\* the summed playCount of the aggregates of S that carry g
RECURSIVE CarriedWeight(_, _, _)
CarriedWeight(u, S, g) ==
    IF S = {} THEN 0
    ELSE LET a == CHOOSE x \in S : TRUE
         IN artistStat[u][a].playCount * Occurrences(artistStat[u][a].genres, g)
            + CarriedWeight(u, S \ {a}, g)

\* dist gives every genre of every stored aggregate the summed playCount of
\* all the aggregates carrying it
CountsEveryAggregate(u, dist) ==
    \A a \in StoredArtists(u) :
        \A j \in 1..Len(artistStat[u][a].genres) :
            LET g == artistStat[u][a].genres[j]
            IN /\ g \in DOMAIN dist
               /\ dist[g][1] = CarriedWeight(u, StoredArtists(u), g)

(* C35: the genre distribution computed by buildMusicProfile takes every     *)
(* ArtistAggregate stored for the identity into account, not only the        *)
(* artists that make it into topArtists.                                     *)
C35_EveryAggregateCounted ==
    [][\A u \in Syncing :
          BuildProfile(u) => CountsEveryAggregate(u, musicProfile'[u].genreDist)]_vars

\* what the code does: every aggregate is counted as long as no more than
\* TopN are stored
C35_CountedUpToTopN ==
    [][\A u \in Syncing :
          (BuildProfile(u) /\ Cardinality(StoredArtists(u)) <= TopN)
          => CountsEveryAggregate(u, musicProfile'[u].genreDist)]_vars

\* a profile built over TopN pop artists counted twice and a rock artist
\* counted once: rock is not in genreDist
C35_LeftOut ==
    /\ musicProfile["u1"].present
    /\ Cardinality(StoredArtists("u1")) = TopN + 1
    /\ artistStat["u1"]["a1"] = [present |-> TRUE, playCount |-> 1, genres |-> <<"rock">>]
    /\ "rock" \notin DOMAIN musicProfile["u1"].genreDist
    /\ Len(musicProfile["u1"].topArtists) = TopN

-----------------------------------------------------------------------------
(* Claims on the listing of an identity's snapshots, checked under           *)
(* SpecCacheList                                                             *)

\* the identity and the label a file in the directory was last saved under
WrittenBy(f) == Member(Parse(cacheFiles[f]), "userId").s
WrittenAs(f) == Member(Parse(cacheFiles[f]), "dataType").s

\* the labels that have a snapshot of identity i now
LabelsWithSnapshot(i) ==
    {l \in CacheLabels :
        /\ cacheFiles[getCacheFilePath(i, l)] # NoFile
        /\ WrittenBy(getCacheFilePath(i, l)) = i
        /\ WrittenAs(getCacheFilePath(i, l)) = l}

\* the entries of the last listing
ListedEntries == {cacheIO.value.items[k].s : k \in 1..Len(cacheIO.value.items)}

(* C36: LocalCache.listUserCaches(identityId) returns exactly one entry per  *)
(* label that has a snapshot for that identity now (saved and not deleted    *)
(* since) and no entry that belongs to a different identity.                 *)
C36_ListsOwnSnapshotsOnly ==
    cacheIO.op = "list" =>
        /\ Len(cacheIO.value.items) = Cardinality(LabelsWithSnapshot(cacheIO.userId))
        /\ ListedEntries =
             {JoinName(getCacheFilePath(cacheIO.userId, l)) :
                l \in LabelsWithSnapshot(cacheIO.userId)}

\* what the code does: the listing has one entry per file whose name starts
\* with the id and an underscore, so every snapshot of the identity is in it
C36_ListsByPrefix ==
    cacheIO.op = "list" =>
        /\ \A l \in LabelsWithSnapshot(cacheIO.userId) :
              JoinName(getCacheFilePath(cacheIO.userId, l)) \in ListedEntries
        /\ Len(cacheIO.value.items) = Cardinality(ListedEntries)
        /\ ListedEntries =
             {JoinName(f) : f \in {g \in FileNames : cacheFiles[g] # NoFile
                                                      /\ StartsWithId(g, cacheIO.userId)}}

\* the listing of temp_john holds the profile snapshot of temp_john_doe
C36_ForeignEntry ==
    /\ cacheIO.op = "list" /\ cacheIO.userId = "temp_john"
    /\ "temp_john_doe_profile.json" \in ListedEntries
    /\ WrittenBy(getCacheFilePath("temp_john_doe", "profile")) = "temp_john_doe"

-----------------------------------------------------------------------------
(* Claims on the branch without fallback, checked under SpecGate *)

\* the step in which call c of withCacheFallback ends
WcfEnds(c) ==
    calls[c].pc # "done" /\ calls'[c].pc = "done" /\ calls'[c].op = "wcf"

(* C37: when the gate reports the store unavailable and fallback is not      *)
(* allowed, withCacheFallback runs neither the primary nor the secondary and *)
(* fails with a 'Database unavailable and cache fallback disabled' error,    *)
(* leaving the gate memo unchanged: it is the false that checkDatabase       *)
(* answered, and resetDatabaseCheck is not called.                           *)
C37_FailsWithoutFallback ==
    [][\A c \in Callers :
         (WcfEnds(c) /\ calls'[c].isDbAvailable = "false" /\ ~calls'[c].fallbackToCache)
         => /\ calls'[c].kind = "throw"
            /\ calls'[c].thrown = "E_Disabled"
            /\ calls'[c].primaryRuns = 0 /\ calls'[c].secondaryRuns = 0
            /\ dbAvailable' = "false"
            /\ (resetPending' => resetPending)]_vars

\* a call without fallback found false memoized and has failed with that error
C37_Witness ==
    \E c \in Callers :
        /\ calls[c].op = "wcf" /\ calls[c].pc = "done"
        /\ ~calls[c].fallbackToCache
        /\ calls[c].isDbAvailable = "false"
        /\ calls[c].thrown = "E_Disabled"
        /\ calls[c].primaryRuns = 0 /\ calls[c].secondaryRuns = 0
        /\ dbAvailable = "false"

====
